---- MODULE Spec2Model ----
(***************************************************************************)
(* clsync settings synchronization engine (src/src/repo-sync.js, the       *)
(* version of lines 1845-3296): item scanner, staging area, apply, and     *)
(* the promote/demote scope mover, over an abstract filesystem.            *)
(*                                                                         *)
(* A file or directory name is a sequence of tokens ("x", "-", "1", ".md") *)
(* whose concatenation is the name; no token contains another, so string   *)
(* operations (endsWith, replace, template concatenation) are exact on     *)
(* token sequences.  A path below a root is <<type-dir, entry-name>>.      *)
(***************************************************************************)
EXTENDS Integers, Sequences, FiniteSets, TLC

VARIABLES
    user,        \* ~/.claude            : path -> entry
    project,     \* <cwd>/.claude        : path -> entry
    local,       \* ~/.clsync/local      : path -> entry   (staging area)
    repos,       \* ~/.clsync/repos/<owner>/<repo> : repo key -> (path -> entry)
    descriptor,  \* ~/.clsync/local/clsync.json
    manifest,    \* ~/.clsync/manifest.json
    remote,      \* GitHub: what each repository answers, and the pushes received
    tmp,         \* os.tmpdir(): the clsync-push-<ms> directories
    clock,       \* Date.now()
    running,     \* the invocations in flight: id -> position and local variables
    hist         \* the calls made so far, newest first, each with the roots before it

vars ==
    <<user, project, local, repos, descriptor, manifest, remote, tmp, clock, running,
      hist>>

-----------------------------------------------------------------------------
(* Bounds of the model *)

MaxOps == 2        \* operations per behaviour of SpecSeq
MaxSuffix == 2     \* largest k of an entry name x-k in an initial root

-----------------------------------------------------------------------------
(* Names, paths, file contents *)

SETTINGS_DIRS == <<"skills", "agents", "output-styles">>

MD == ".md"
NoName == <<>>
NoPath == <<>>
NoType == "none"
NoDesc == "none"
Missing == "missing"

DigitChars == <<"0", "1", "2", "3", "4", "5", "6", "7", "8", "9">>

RECURSIVE Decimal(_)
\* `${counter}`: the decimal digits of a positive integer
Decimal(k) ==
    IF k < 10 THEN <<DigitChars[k + 1]>>
    ELSE Decimal(k \div 10) \o <<DigitChars[(k % 10) + 1]>>

\* `${name}-${counter}`
Suffixed(name, counter) == name \o <<"-">> \o Decimal(counter)

\* entry.endsWith(".md")
EndsWithMd(entry) == Len(entry) > 0 /\ entry[Len(entry)] = MD

\* entry.replace(".md", ""): removes the FIRST occurrence only
ReplaceFirstMd(entry) ==
    IF \E i \in 1..Len(entry) : entry[i] = MD
    THEN LET i == CHOOSE j \in 1..Len(entry) :
                     entry[j] = MD /\ \A h \in 1..(j - 1) : entry[h] # MD
         IN  SubSeq(entry, 1, i - 1) \o SubSeq(entry, i + 1, Len(entry))
    ELSE entry

\* the leading metadata block of a file, as parseMetadata returns it: the keys
\* the scanner's spread can see; an absent key is NoName / NoType / NoPath / NoDesc
NoMeta == [name |-> NoName, type |-> NoType, path |-> NoPath, description |-> NoDesc]

parseMetadata(content) == content.meta

\* a file content: its metadata block and the rest of its text (body > 0)
Text(meta, body) == [meta |-> meta, body |-> body]
NoFile == [meta |-> NoMeta, body |-> 0]

\* directory entries of a root: a regular file, or a directory holding an
\* optional SKILL.md (content) and an optional further file (extra, 0 = none)
File(c) == [kind |-> "file", content |-> c, extra |-> 0]
Dir(skillmd, extra) == [kind |-> "dir", content |-> skillmd, extra |-> extra]

Has(root, p) == p \in DOMAIN root
Put(root, p, e) == [q \in (DOMAIN root) \cup {p} |-> IF q = p THEN e ELSE root[q]]
\* an rm that removes nothing
RmNothing(root, p) == root
\* rm(path, {recursive: true, force: true})
Rm(root, p) == [q \in (DOMAIN root) \ {p} |-> root[q]]
EmptyRoot == [q \in {} |-> File(NoFile)]


-----------------------------------------------------------------------------
(* Item scanner *)

\* position of a type directory in SETTINGS_DIRS (the order scanItems walks them)
DirIndex(d) == CHOOSE i \in 1..Len(SETTINGS_DIRS) : SETTINGS_DIRS[i] = d

NoItem == [type |-> NoType, name |-> NoName, path |-> NoPath,
           description |-> NoDesc, at |-> NoPath]

\* the object literal scanItems pushes: type, name, path, then `...metadata`
\* spread over them (a metadata key of the same name wins); `at` is where the
\* entry really is, i.e. the item's identity in the returned list
Spread(base, meta) ==
    [type |-> IF meta.type # NoType THEN meta.type ELSE base.type,
     name |-> IF meta.name # NoName THEN meta.name ELSE base.name,
     path |-> IF meta.path # NoPath THEN meta.path ELSE base.path,
     description |-> meta.description,
     at |-> base.path]

\* the items one directory entry contributes (none or one)
ItemsAt(root, p) ==
    LET dir == p[1]
        entry == p[2]
        e == root[p]
    IN  IF dir = "skills" /\ e.kind = "dir"
        THEN IF e.content.body = 0
             THEN {}
             ELSE {Spread([type |-> "skill", name |-> entry, path |-> <<"skills", entry>>],
                          parseMetadata(e.content))}
        ELSE IF e.kind = "file" /\ EndsWithMd(entry)
        THEN {Spread([type |-> IF dir = "agents" THEN "agent" ELSE "output-style",
                      name |-> ReplaceFirstMd(entry),
                      path |-> <<dir, entry>>],
                     parseMetadata(e.content))}
        ELSE {}

\* scanItems(baseDir): the items of the three type directories
scanItems(root) == UNION {ItemsAt(root, p) : p \in DOMAIN root}

\* a find that matches on a prefix of the name
FindByNamePrefix(root, itemName) ==
    LET m == {i \in scanItems(root) :
                 /\ Len(i.name) >= Len(itemName)
                 /\ SubSeq(i.name, 1, Len(itemName)) = itemName}
    IN  {i \in m : \A j \in m : DirIndex(i.at[1]) <= DirIndex(j.at[1])}

\* items.find((i) => i.name === itemName): the first match in list order.  The
\* list is in SETTINGS_DIRS order; inside one directory it is in readdir order,
\* which the filesystem decides, so any match of the first matching directory
\* can be the one found.
FindByName(root, itemName) ==
    LET m == {i \in scanItems(root) : i.name = itemName}
    IN  {i \in m : \A j \in m : DirIndex(i.at[1]) <= DirIndex(j.at[1])}

-----------------------------------------------------------------------------
(* Copying *)

\* a cp that refuses to write over an existing destination
CpErrorOnExist(srcRoot, sp, dstRoot, dp) ==
    IF ~Has(srcRoot, sp) \/ Has(dstRoot, dp)
    THEN [ok |-> FALSE, root |-> dstRoot]
    ELSE [ok |-> TRUE, root |-> Put(dstRoot, dp, srcRoot[sp])]

\* cp(src, dest, {recursive: true}): a directory is merged into an existing
\* directory (files of the same name are overwritten, others stay); copying a
\* directory onto a file, a file onto a directory, or a missing source fails
CpRecursive(srcRoot, sp, dstRoot, dp) ==
    IF ~Has(srcRoot, sp) THEN [ok |-> FALSE, root |-> dstRoot]
    ELSE LET s == srcRoot[sp] IN
         IF ~Has(dstRoot, dp) THEN [ok |-> TRUE, root |-> Put(dstRoot, dp, s)]
         ELSE LET d == dstRoot[dp] IN
              IF s.kind # d.kind THEN [ok |-> FALSE, root |-> dstRoot]
              ELSE IF s.kind = "file" THEN [ok |-> TRUE, root |-> Put(dstRoot, dp, s)]
              ELSE [ok |-> TRUE,
                    root |-> Put(dstRoot, dp,
                                 Dir(IF s.content.body # 0 THEN s.content ELSE d.content,
                                     IF s.extra # 0 THEN s.extra ELSE d.extra))]

\* readFile(sourcePath) then writeFile(destPath, content): fails when the source
\* is missing or a directory, or the destination is a directory
ReadWrite(srcRoot, sp, dstRoot, dp) ==
    IF ~Has(srcRoot, sp) \/ srcRoot[sp].kind # "file"
    THEN [ok |-> FALSE, root |-> dstRoot]
    ELSE IF Has(dstRoot, dp) /\ dstRoot[dp].kind = "dir"
    THEN [ok |-> FALSE, root |-> dstRoot]
    ELSE [ok |-> TRUE, root |-> Put(dstRoot, dp, File(srcRoot[sp].content))]

\* `if (item.type === "skill") cp(...) else { readFile; writeFile }`
CopyByType(item, srcRoot, sp, dstRoot, dp) ==
    IF item.type = "skill"
    THEN CpRecursive(srcRoot, sp, dstRoot, dp)
    ELSE ReadWrite(srcRoot, sp, dstRoot, dp)

-----------------------------------------------------------------------------
(* Scope mover: promote / demote *)

\* itemExistsInTarget(name, type, targetDir)
itemExistsInTarget(name, type, root) ==
    \E i \in scanItems(root) : i.name = name /\ i.type = type

RECURSIVE UniqueNameLoop(_, _, _, _, _)
\* the while loop of getUniqueName
UniqueNameLoop(name, type, root, newName, counter) ==
    IF itemExistsInTarget(newName, type, root)
    THEN UniqueNameLoop(name, type, root, Suffixed(name, counter), counter + 1)
    ELSE newName

\* a counter that starts at 2
getUniqueNameFromTwo(name, type, root) ==
    IF itemExistsInTarget(name, type, root)
    THEN UniqueNameLoop(name, type, root, Suffixed(name, 2), 3)
    ELSE name

\* getUniqueName(name, type, targetDir)
getUniqueName(name, type, root) == UniqueNameLoop(name, type, root, name, 1)

\* a target name that ignores the rename
TargetNameNoRename(itemName, rename) == itemName

\* `rename || itemName`
TargetName(itemName, rename) == IF rename # NoName THEN rename ELSE itemName

\* a conflict test with the test of rename inverted
ConflictRaisedIfRenamed(existing, force, rename) ==
    existing /\ ~force /\ rename # NoName

\* `if (existing && !force && !rename) throw`
ConflictRaised(existing, force, rename) == existing /\ ~force /\ rename = NoName

\* the destination path by the item's type
TargetPath(item, targetName) ==
    IF item.type = "skill" THEN <<"skills", targetName>>
    ELSE IF item.type = "agent" THEN <<"agents", targetName \o <<MD>>>>
    ELSE <<"output-styles", targetName \o <<MD>>>>

Outcome(status, item, suggested, newName, renamed, src, dst) ==
    [status |-> status, item |-> item, suggested |-> suggested,
     newName |-> newName, renamed |-> renamed, src |-> src, dst |-> dst]

\* the body shared by promoteItem and demoteItem once the item is found:
\* conflict check, copy to the destination, removal from the source
MoveFound(src, dst, item, itemName, force, rename) ==
    LET existing == itemExistsInTarget(itemName, item.type, dst)
        targetName == TargetName(itemName, rename)
    IN  IF ConflictRaised(existing, force, rename)
        THEN Outcome("Conflict", item, getUniqueName(itemName, item.type, dst),
                     NoName, FALSE, src, dst)
        ELSE LET copied == CopyByType(item, src, item.path, dst,
                                      TargetPath(item, targetName))
             IN  IF ~copied.ok
                 THEN Outcome("IOError", item, NoName, NoName, FALSE, src, dst)
                 ELSE Outcome("ok", item, NoName, targetName, targetName # itemName,
                              Rm(src, item.path), copied.root)

\* every result a move of itemName from src to dst can have
MoveOutcomes(src, dst, itemName, force, rename) ==
    IF FindByName(src, itemName) = {}
    THEN {Outcome("NotFound", NoItem, NoName, NoName, FALSE, src, dst)}
    ELSE {MoveFound(src, dst, item, itemName, force, rename) :
              item \in FindByName(src, itemName)}

-----------------------------------------------------------------------------
(* Staging area: initialisation and descriptor *)

EmptyMap == [k \in {} |-> 0]

\* the non-derived fields initClsync gives a new clsync.json
DefaultFields == [name |-> "local", author |-> "me", linked |-> "none"]

\* the item list and the stats updateLocalClsyncJson derives from a scan
DescItems(root) ==
    [p \in {i.at : i \in scanItems(root)} |->
        LET i == CHOOSE j \in scanItems(root) : j.at = p
        IN  [type |-> i.type, name |-> i.name, path |-> i.path,
             description |-> i.description]]

DescStats(root) ==
    LET n(t) == Cardinality({i \in scanItems(root) : i.type = t})
    IN  [skills |-> n("skill"), agents |-> n("agent"),
         output_styles |-> n("output-style"),
         total |-> Cardinality(scanItems(root))]

MkDescriptor(fields, items, stats) ==
    [exists |-> TRUE, fields |-> fields, items |-> items, stats |-> stats]

NoDescriptor ==
    [exists |-> FALSE, fields |-> DefaultFields, items |-> EmptyMap,
     stats |-> [skills |-> 0, agents |-> 0, output_styles |-> 0, total |-> 0]]

FreshManifest == [exists |-> TRUE, repos |-> EmptyMap]
NoManifest == [exists |-> FALSE, repos |-> EmptyMap]

\* manifest.json holding text that is not JSON, and one holding a JSON object
\* that has no repos field
CorruptManifest == [exists |-> TRUE, json |-> FALSE]
BareManifest == [exists |-> TRUE, json |-> TRUE]

\* readFile(MANIFEST_FILE) and JSON.parse(content): what each throws on
ReadFileThrows(m) == ~m.exists
JsonParseThrows(m) == "json" \in DOMAIN m /\ ~m.json

Loaded(status, m) == [status |-> status, manifest |-> m]

\* a load without its try/catch
loadManifestNoCatch(m) ==
    IF ReadFileThrows(m) \/ JsonParseThrows(m) THEN Loaded("raised", NoManifest)
    ELSE IF "repos" \notin DOMAIN m THEN Loaded("ok", FreshManifest)
    ELSE Loaded("ok", m)

\* a load that forgets what the file holds
loadManifestEmpty(m) == Loaded("ok", FreshManifest)

\* loadManifest(): the parsed file, with an empty repos map when it has none;
\* the catch turns a failed read or parse into a fresh manifest
loadManifest(m) ==
    IF ReadFileThrows(m) \/ JsonParseThrows(m) THEN Loaded("ok", FreshManifest)
    ELSE IF "repos" \notin DOMAIN m THEN Loaded("ok", FreshManifest)
    ELSE Loaded("ok", m)

\* initClsync: creates manifest.json and local/clsync.json when they are missing
InitManifest(m) == IF m.exists THEN m ELSE FreshManifest
InitDescriptor(d) ==
    IF d.exists THEN d ELSE MkDescriptor(DefaultFields, EmptyMap, NoDescriptor.stats)

\* updateLocalClsyncJson: `...existing`, then items and stats from a live scan
updateLocalClsyncJson(d, root) ==
    MkDescriptor(IF d.exists THEN d.fields ELSE DefaultFields,
                 DescItems(root), DescStats(root))

\* getClaudeDir(scope)
getClaudeDir(scope) == IF scope = "project" THEN project ELSE user

-----------------------------------------------------------------------------
(* History *)

Snapshot == [user |-> user, project |-> project, local |-> local, repos |-> repos]

Call(op, itemName, force, rename, scope, source, status, item, suggested, newName, renamed) ==
    [op |-> op, name |-> itemName, force |-> force, rename |-> rename,
     scope |-> scope, source |-> source, status |-> status, item |-> item,
     suggested |-> suggested, newName |-> newName, renamed |-> renamed,
     before |-> Snapshot, descriptorBefore |-> descriptor]

Record(call) == hist' = <<call>> \o hist

-----------------------------------------------------------------------------
(* Operations.  `more` is the guard that bounds the number of calls of a       *)
(* behaviour; forces, renames, scopes, sources are the argument values drawn.  *)

\* promoteItem(itemName, {rename, force}): project -> user
PromoteItem(more, names, forces, renames) ==
    /\ more
    /\ \E itemName \in names, force \in forces, rename \in renames :
         \E out \in MoveOutcomes(project, user, itemName, force, rename) :
            /\ project' = out.src
            /\ user' = out.dst
            /\ Record(Call("promote", itemName, force, rename, "project", "none",
                           out.status, out.item, out.suggested, out.newName,
                           out.renamed))
    /\ UNCHANGED <<running, local, repos, descriptor, manifest, remote, tmp, clock>>

\* demoteItem(itemName, {rename, force}): user -> project
DemoteItem(more, names, forces, renames) ==
    /\ more
    /\ \E itemName \in names, force \in forces, rename \in renames :
         \E out \in MoveOutcomes(user, project, itemName, force, rename) :
            /\ user' = out.src
            /\ project' = out.dst
            /\ Record(Call("demote", itemName, force, rename, "user", "none",
                           out.status, out.item, out.suggested, out.newName,
                           out.renamed))
    /\ UNCHANGED <<running, local, repos, descriptor, manifest, remote, tmp, clock>>

\* stageItem(itemName, scope)
StageItem(more, names, scopes) ==
    /\ more
    /\ manifest' = InitManifest(manifest)
    /\ \E itemName \in names, scope \in scopes :
         LET sourceDir == getClaudeDir(scope)
             found == FindByName(sourceDir, itemName)
             inited == InitDescriptor(descriptor)
         IN  IF found = {}
             THEN /\ local' = local
                  /\ descriptor' = inited
                  /\ Record(Call("stage", itemName, FALSE, NoName, scope, "none",
                                 "NotFound", NoItem, NoName, NoName, FALSE))
             ELSE \E item \in found :
                    LET copied == CopyByType(item, sourceDir, item.path,
                                             local, item.path)
                    IN  IF ~copied.ok
                        THEN /\ local' = local
                             /\ descriptor' = inited
                             /\ Record(Call("stage", itemName, FALSE, NoName, scope,
                                            "none", "IOError", item, NoName, NoName,
                                            FALSE))
                        ELSE /\ local' = copied.root
                             /\ descriptor' = updateLocalClsyncJson(inited, copied.root)
                             /\ Record(Call("stage", itemName, FALSE, NoName, scope,
                                            "none", "ok", item, NoName, NoName, FALSE))
    /\ UNCHANGED <<running, user, project, repos, remote, tmp, clock>>

\* unstageItem(itemName)
UnstageItem(more, names) ==
    /\ more
    /\ manifest' = InitManifest(manifest)
    /\ \E itemName \in names :
         LET found == FindByName(local, itemName)
             inited == InitDescriptor(descriptor)
         IN  IF found = {}
             THEN /\ local' = local
                  /\ descriptor' = inited
                  /\ Record(Call("unstage", itemName, FALSE, NoName, "none", "local",
                                 "NotFound", NoItem, NoName, NoName, FALSE))
             ELSE \E item \in found :
                    /\ local' = Rm(local, item.path)
                    /\ descriptor' = updateLocalClsyncJson(inited, Rm(local, item.path))
                    /\ Record(Call("unstage", itemName, FALSE, NoName, "none", "local",
                                   "ok", item, NoName, NoName, FALSE))
    /\ UNCHANGED <<running, user, project, repos, remote, tmp, clock>>

\* applyItem(itemName, scope, source): source "local" or a cached owner/repo
ApplyItem(more, names, scopes, sources) ==
    /\ more
    /\ \E itemName \in names, scope \in scopes, source \in sources :
         LET sourceDir == IF source = "local" THEN local
                          ELSE IF source \in DOMAIN repos THEN repos[source]
                          ELSE EmptyRoot
             found == FindByName(sourceDir, itemName)
             destDir == getClaudeDir(scope)
         IN  /\ manifest' = IF source = "local" THEN InitManifest(manifest) ELSE manifest
             /\ descriptor' = IF source = "local" THEN InitDescriptor(descriptor)
                              ELSE descriptor
             /\ IF found = {}
                THEN /\ UNCHANGED <<user, project>>
                     /\ Record(Call("apply", itemName, FALSE, NoName, scope, source,
                                    "NotFound", NoItem, NoName, NoName, FALSE))
                ELSE \E item \in found :
                       LET copied == CopyByType(item, sourceDir, item.path,
                                                destDir, item.path)
                       IN  /\ user' = IF scope = "project" THEN user ELSE copied.root
                           /\ project' = IF scope = "project" THEN copied.root
                                         ELSE project
                           /\ Record(Call("apply", itemName, FALSE, NoName, scope,
                                          source, IF copied.ok THEN "ok" ELSE "IOError",
                                          item, NoName, NoName, FALSE))
    /\ UNCHANGED <<running, local, repos, remote, tmp, clock>>

-----------------------------------------------------------------------------
(* The initial filesystems *)

\* the names x, x-1, x-2, ...
X(k) == IF k = 0 THEN <<"x">> ELSE Suffixed(<<"x">>, k)

Skill(n) == <<"skills", n>>
Agent(n) == <<"agents", n \o <<MD>>>>
Style(n) == <<"output-styles", n \o <<MD>>>>

\* file contents: plain ones, and ones whose metadata block has a name, type
\* or path key
cA == Text([NoMeta EXCEPT !.description = "a"], 1)
cB == Text(NoMeta, 2)
cNameX == Text([NoMeta EXCEPT !.name = X(0)], 1)
cTypeAgent == Text([NoMeta EXCEPT !.type = "agent"], 1)
cPathX1 == Text([NoMeta EXCEPT !.path = Agent(X(1))], 1)

\* a root from its <<path, entry>> pairs
RootOf(pairs) ==
    [p \in {q[1] : q \in pairs} |-> (CHOOSE q \in pairs : q[1] = p)[2]]

\* agents x, x-1, ..., x-k
AgentChain(k) == RootOf({<<Agent(X(j)), File(cB)>> : j \in 0..k})

ChainRoots ==
    {AgentChain(k) : k \in 0..MaxSuffix}
        \cup {RootOf({<<Agent(X(0)), File(cB)>>, <<Agent(X(MaxSuffix)), File(cB)>>})}

\* roots whose items are named as their files and directories are
PlainRoots ==
    { EmptyRoot,
      RootOf({<<Agent(X(0)), File(cA)>>}),
      RootOf({<<Agent(X(0)), File(cNameX)>>}),
      RootOf({<<Agent(X(1)), File(cA)>>}),
      RootOf({<<Skill(X(0)), Dir(cA, 0)>>}),
      RootOf({<<Skill(X(0)), Dir(cB, 1)>>}),
      RootOf({<<Skill(X(0)), Dir(cA, 0)>>, <<Agent(X(0)), File(cB)>>}),
      RootOf({<<Style(X(0)), File(cA)>>}) }

\* roots holding entries the scanner reads differently from how they are stored
OddRoots ==
    { \* a directory without SKILL.md, holding another file
      RootOf({<<Skill(X(0)), Dir(NoFile, 1)>>}),
      \* an agent stored as x-1.md whose metadata says name: x
      RootOf({<<Agent(X(1)), File(cNameX)>>}),
      RootOf({<<Agent(X(0)), File(cA)>>, <<Agent(X(1)), File(cNameX)>>}),
      \* a skill whose metadata says type: agent
      RootOf({<<Skill(X(0)), Dir(cTypeAgent, 0)>>}),
      \* an agent whose metadata says path: agents/x-1.md
      RootOf({<<Agent(X(0)), File(cPathX1)>>, <<Agent(X(1)), File(cB)>>}),
      \* a markdown file directly in skills/
      RootOf({<<Skill(X(0) \o <<MD>>), File(cA)>>}),
      \* a directory named x.md in agents/
      RootOf({<<Agent(X(0)), Dir(NoFile, 1)>>}),
      \* agents/x.md.md and agents/.mdx.md
      RootOf({<<Agent(X(0) \o <<MD>>), File(cA)>>,
              <<Agent(<<MD>> \o X(0)), File(cB)>>}) }

ClaudeRoots == ChainRoots \cup PlainRoots \cup OddRoots

StagedRoots ==
    { EmptyRoot,
      RootOf({<<Agent(X(0)), File(cB)>>}),
      RootOf({<<Agent(X(1)), File(cB)>>}),
      RootOf({<<Skill(X(0)), Dir(cB, 1)>>}),
      RootOf({<<Agent(X(1)), File(cNameX)>>}) }

CachedRepos ==
    { [r \in {"o/r"} |-> RootOf({<<Skill(X(0)), Dir(cA, 0)>>,
                                 <<Agent(X(1)), File(cB)>>})] }

\* no repository answers and nothing was pushed
NoRemote == [repos |-> EmptyMap, pushes |-> <<>>]

InitOver(userRoots, projectRoots, stagedRoots) ==
    /\ user \in userRoots
    /\ project \in projectRoots
    /\ local \in stagedRoots
    /\ repos \in CachedRepos
    /\ descriptor = IF local = EmptyRoot THEN NoDescriptor
                    ELSE updateLocalClsyncJson(NoDescriptor, local)
    /\ manifest = IF local = EmptyRoot THEN NoManifest ELSE FreshManifest
    /\ remote = NoRemote
    /\ tmp = EmptyMap
    /\ clock = 1
    /\ running = EmptyMap
    /\ hist = <<>>

\* the argument values the calls draw from
ItemNames == {X(0), X(1)}
Renames == {NoName, X(1)}
Scopes == {"user", "project"}
Sources == {"local", "o/r"}

-----------------------------------------------------------------------------
(* Specifications *)

Init == InitOver(ClaudeRoots, ClaudeRoots, StagedRoots)

\* one call, with any arguments, from any initial filesystem
Next ==
    \/ PromoteItem(hist = <<>>, ItemNames, BOOLEAN, Renames)
    \/ DemoteItem(hist = <<>>, ItemNames, BOOLEAN, Renames)
    \/ StageItem(hist = <<>>, ItemNames, Scopes)
    \/ UnstageItem(hist = <<>>, ItemNames)
    \/ ApplyItem(hist = <<>>, ItemNames, Scopes, Sources)

Spec == Init /\ [][Next]_vars

\* only roots whose items are named as they are stored
InitPlain == InitOver(PlainRoots, PlainRoots, StagedRoots)

\* at most MaxOps promote and demote calls without force or rename
NextMoves ==
    \/ PromoteItem(Len(hist) < MaxOps, ItemNames, {FALSE}, {NoName})
    \/ DemoteItem(Len(hist) < MaxOps, ItemNames, {FALSE}, {NoName})

SpecMoves == InitPlain /\ [][NextMoves]_vars

\* the plain roots and some whose metadata or layout departs from them
SeqRoots == PlainRoots \cup
    { RootOf({<<Skill(X(0)), Dir(NoFile, 1)>>}),
      RootOf({<<Agent(X(1)), File(cNameX)>>}),
      RootOf({<<Skill(X(0)), Dir(cTypeAgent, 0)>>}),
      RootOf({<<Agent(X(0)), File(cPathX1)>>, <<Agent(X(1)), File(cB)>>}) }

InitSeq == InitOver(SeqRoots, SeqRoots, StagedRoots)

\* at most MaxOps stage and unstage calls
NextStaging ==
    \/ StageItem(Len(hist) < MaxOps, ItemNames, Scopes)
    \/ UnstageItem(Len(hist) < MaxOps, ItemNames)

SpecStaging == InitSeq /\ [][NextStaging]_vars

\* a file whose metadata block says type: command
cTypeCommand == Text([NoMeta EXCEPT !.type = "command"], 2)

\* a descriptor whose non-derived fields are not the defaults
Customised(d) ==
    [d EXCEPT !.exists = TRUE,
              !.fields = [name |-> "mine", author |-> "you", linked |-> "o/r"]]

DescriptorRoots ==
    { EmptyRoot,
      RootOf({<<Agent(X(0)), File(cA)>>}),
      RootOf({<<Agent(X(0)), File(cTypeCommand)>>}),
      RootOf({<<Skill(X(0)), Dir(cB, 1)>>, <<Style(X(1)), File(cA)>>}),
      RootOf({<<Skill(X(0)), Dir(cA, 0)>>, <<Agent(X(0)), File(cB)>>,
              <<Agent(X(1)), File(cNameX)>>}) }

InitDescriptors ==
    /\ user \in DescriptorRoots
    /\ project \in DescriptorRoots
    /\ local \in StagedRoots
    /\ repos \in CachedRepos
    /\ descriptor \in {NoDescriptor,
                       updateLocalClsyncJson(NoDescriptor, local),
                       Customised(updateLocalClsyncJson(NoDescriptor, local))}
    /\ manifest = IF descriptor.exists THEN FreshManifest ELSE NoManifest
    /\ remote = NoRemote
    /\ tmp = EmptyMap
    /\ clock = 1
    /\ running = EmptyMap
    /\ hist = <<>>

\* at most MaxOps stage and unstage calls, from staging areas with any descriptor
SpecDescriptors == InitDescriptors /\ [][NextStaging]_vars

-----------------------------------------------------------------------------
(* Batch operations: stageAll, applyAll *)

\* the lists scanItems can return for a root: the type directories in
\* SETTINGS_DIRS order, the entries of one directory in readdir order
ScanLists(root) ==
    LET S == scanItems(root)
        n == Cardinality(S)
    IN  {list \in [1..n -> S] :
            \A i, j \in 1..n :
                i < j => /\ list[i] # list[j]
                         /\ DirIndex(list[i].at[1]) <= DirIndex(list[j].at[1])}

\* items.find((i) => i.name === itemName) on a list
FindFirst(list, itemName) ==
    IF \E k \in 1..Len(list) : list[k].name = itemName
    THEN list[CHOOSE k \in 1..Len(list) :
                 /\ list[k].name = itemName
                 /\ \A h \in 1..(k - 1) : list[h].name # itemName]
    ELSE NoItem

\* one pass of the loop body: stageItem(item.name) / applyItem(item.name)
\* inside try/catch.  The callee scans the source again and looks the item up
\* by name; its result names the item it found, an error entry the loop's item.
BatchStep(list, srcRoot, dstRoot, loopItem) ==
    LET item == FindFirst(list, loopItem.name)
        copied == CopyByType(item, srcRoot, item.path, dstRoot, item.path)
    IN  IF copied.ok
        THEN [entry |-> [item |-> item, error |-> FALSE], root |-> copied.root]
        ELSE [entry |-> [item |-> loopItem, error |-> TRUE], root |-> dstRoot]

RECURSIVE BatchLoopAbortOnError(_, _, _, _, _)
\* a loop that stops at the first item that fails
BatchLoopAbortOnError(list, k, srcRoot, dstRoot, results) ==
    IF k > Len(list)
    THEN [results |-> results, root |-> dstRoot]
    ELSE LET step == BatchStep(list, srcRoot, dstRoot, list[k])
         IN  IF step.entry.error
             THEN [results |-> Append(results, step.entry), root |-> dstRoot]
             ELSE BatchLoopAbortOnError(list, k + 1, srcRoot, step.root,
                                        Append(results, step.entry))

RECURSIVE BatchLoop(_, _, _, _, _)
\* `for (const item of items) { try { ... } catch (e) { ... } }` from item k on
BatchLoop(list, k, srcRoot, dstRoot, results) ==
    IF k > Len(list)
    THEN [results |-> results, root |-> dstRoot]
    ELSE LET step == BatchStep(list, srcRoot, dstRoot, list[k])
         IN  BatchLoop(list, k + 1, srcRoot, step.root, Append(results, step.entry))

\* a call of stageAll or applyAll: the list it scanned and the list it returned
BatchCall(op, scope, source, list, results) ==
    [op |-> op, scope |-> scope, source |-> source, status |-> "returned",
     list |-> list, results |-> results, before |-> Snapshot]

\* stageAll(scope)
StageAll(more, scopes) ==
    /\ more
    /\ manifest' = InitManifest(manifest)
    /\ \E scope \in scopes :
         \E list \in ScanLists(getClaudeDir(scope)) :
            LET done == BatchLoop(list, 1, getClaudeDir(scope), local, <<>>)
                inited == InitDescriptor(descriptor)
            IN  /\ local' = done.root
                /\ descriptor' =
                      IF \E k \in 1..Len(done.results) : ~done.results[k].error
                      THEN updateLocalClsyncJson(inited, done.root)
                      ELSE inited
                /\ Record(BatchCall("stageAll", scope, "none", list, done.results))
    /\ UNCHANGED <<running, user, project, repos, remote, tmp, clock>>

\* applyAll(scope, source)
ApplyAll(more, scopes, sources) ==
    /\ more
    /\ \E scope \in scopes, source \in sources :
         LET sourceDir == IF source = "local" THEN local
                          ELSE IF source \in DOMAIN repos THEN repos[source]
                          ELSE EmptyRoot
         IN  \E list \in ScanLists(sourceDir) :
                LET done == BatchLoop(list, 1, sourceDir, getClaudeDir(scope), <<>>)
                IN  /\ manifest' = IF source = "local" THEN InitManifest(manifest)
                                   ELSE manifest
                    /\ descriptor' = IF source = "local" THEN InitDescriptor(descriptor)
                                     ELSE descriptor
                    /\ user' = IF scope = "project" THEN user ELSE done.root
                    /\ project' = IF scope = "project" THEN done.root ELSE project
                    /\ Record(BatchCall("applyAll", scope, source, list, done.results))
    /\ UNCHANGED <<running, local, repos, remote, tmp, clock>>

\* roots with several items: one whose copy fails ahead of one whose copy works
BatchRoots == ClaudeRoots \cup
    { RootOf({<<Skill(X(0)), Dir(cTypeAgent, 0)>>, <<Agent(X(1)), File(cB)>>}),
      RootOf({<<Agent(X(0)), File(cA)>>, <<Style(X(1)), File(cB)>>}),
      RootOf({<<Skill(X(0)), Dir(cA, 1)>>, <<Agent(X(1)), File(cA)>>,
              <<Style(X(0)), File(cB)>>}),
      \* a directory named x-1.md in agents/
      RootOf({<<Agent(X(1)), Dir(NoFile, 1)>>}) }

BatchStaged == StagedRoots \cup
    { RootOf({<<Agent(X(0)), File(cA)>>, <<Style(X(1)), File(cB)>>}),
      RootOf({<<Skill(X(0)), Dir(cA, 1)>>, <<Agent(X(1)), File(cA)>>,
              <<Style(X(0)), File(cB)>>}),
      RootOf({<<Agent(X(0)), Dir(NoFile, 1)>>}),
      RootOf({<<Skill(X(0)), Dir(cB, 0)>>, <<Agent(X(0)), File(cA)>>}) }

InitBatch == InitOver(BatchRoots, BatchRoots, BatchStaged)

\* one call of stageAll or applyAll
NextBatch ==
    \/ StageAll(hist = <<>>, Scopes)
    \/ ApplyAll(hist = <<>>, Scopes, Sources)

SpecBatch == InitBatch /\ [][NextBatch]_vars

-----------------------------------------------------------------------------
(* Repository client: pull *)

\* A path of a remote tree is the sequence of its segments: <<dir, entry>> for
\* dir/entry, <<dir, entry, inner>> for a file inside the directory dir/entry.
SKILL_MD == "SKILL.md"
NOTES == "notes.txt"

\* fetchRepoTree: the tree of the branch, or the error the response status maps to
fetchRepoTree(rem, key) ==
    IF key \notin DOMAIN rem.repos
    THEN [status |-> "NotFound", tree |-> <<>>]
    ELSE LET r == rem.repos[key]
         IN  IF r.status = 200 THEN [status |-> "ok", tree |-> r.tree]
             ELSE IF r.status = 409 THEN [status |-> "EmptyRepository", tree |-> <<>>]
             ELSE IF r.status = 404 THEN [status |-> "NotFound", tree |-> <<>>]
             ELSE [status |-> "ApiError", tree |-> <<>>]

\* fetchFileContent answers with something else than the file's text
RawFails(r, path) == path \in r.failing \/ path \notin DOMAIN r.raw

\* a filter that does not look at the entry's type
IsUnderSettingsDir(f) ==
    /\ Len(f.path) >= 2
    /\ \E i \in 1..Len(SETTINGS_DIRS) : f.path[1] = SETTINGS_DIRS[i]

\* f.type === "blob" && SETTINGS_DIRS.some((d) => f.path.startsWith(d + "/"))
IsSettingsFile(f) ==
    /\ f.type = "blob"
    /\ Len(f.path) >= 2
    /\ \E i \in 1..Len(SETTINGS_DIRS) : f.path[1] = SETTINGS_DIRS[i]

\* existsSync(join(repoDir, path))
existsSync(root, path) ==
    LET p == <<path[1], path[2]>>
    IN  /\ Has(root, p)
        /\ Len(path) = 3 =>
              /\ root[p].kind = "dir"
              /\ IF path[3] = SKILL_MD THEN root[p].content.body # 0
                 ELSE root[p].extra # 0

\* mkdir(dirname(targetPath), {recursive: true}): fails when a file is in the way
MkdirParent(root, path) ==
    LET p == <<path[1], path[2]>>
    IN  IF Len(path) = 2 THEN [ok |-> TRUE, root |-> root]
        ELSE IF ~Has(root, p) THEN [ok |-> TRUE, root |-> Put(root, p, Dir(NoFile, 0))]
        ELSE [ok |-> root[p].kind = "dir", root |-> root]

\* writeFile(targetPath, content): fails when the target is a directory
WriteFile(root, path, content) ==
    LET p == <<path[1], path[2]>>
    IN  IF Len(path) = 2
        THEN IF Has(root, p) /\ root[p].kind = "dir"
             THEN [ok |-> FALSE, root |-> root]
             ELSE [ok |-> TRUE, root |-> Put(root, p, File(content))]
        ELSE IF path[3] = SKILL_MD
        THEN [ok |-> TRUE, root |-> Put(root, p, Dir(content, root[p].extra))]
        ELSE [ok |-> TRUE, root |-> Put(root, p, Dir(root[p].content, content))]

\* a test that skips nothing
SkipsNever(force, root, path) == FALSE

\* a test that forgets the force flag
SkipsEvenIfForced(force, root, path) == existsSync(root, path)

\* `!force && existsSync(targetPath)`
SkipsExisting(force, root, path) == ~force /\ existsSync(root, path)

NoCounts == [downloaded |-> 0, skipped |-> 0, files |-> <<>>, fetched |-> <<>>]

RECURSIVE PullLoop(_, _, _, _, _, _)
\* `for (const file of settingsFiles)` from file k on; `fetched` lists the raw
\* fetches issued.  The first failure ends the loop and the call.
PullLoop(r, files, k, force, root, acc) ==
    IF k > Len(files)
    THEN [status |-> "ok", root |-> root, counts |-> acc]
    ELSE LET path == files[k].path IN
         IF SkipsExisting(force, root, path)
         THEN PullLoop(r, files, k + 1, force, root,
                       [acc EXCEPT !.skipped = @ + 1])
         ELSE LET made == MkdirParent(root, path)
                  asked == [acc EXCEPT !.fetched = Append(@, path)]
              IN  IF ~made.ok
                  THEN [status |-> "IOError", root |-> root, counts |-> acc]
                  ELSE IF RawFails(r, path)
                  THEN [status |-> "FetchFailed", root |-> made.root, counts |-> asked]
                  ELSE LET written == WriteFile(made.root, path, r.raw[path])
                       IN  IF ~written.ok
                           THEN [status |-> "IOError", root |-> made.root,
                                 counts |-> asked]
                           ELSE PullLoop(r, files, k + 1, force, written.root,
                                         [asked EXCEPT !.downloaded = @ + 1,
                                                       !.files = Append(@, path)])

\* the manifest's entry of a repository
NoEntry == [url |-> "none", last_pulled |-> 0, items_count |-> 0]
ManifestEntry(m, key) == IF key \in DOMAIN m.repos THEN m.repos[key] ELSE NoEntry

\* manifest.repos[key] = {url, last_pulled, items_count}; saveManifest
SetManifestEntry(m, key, entry) ==
    [exists |-> TRUE,
     repos |-> [q \in (DOMAIN m.repos) \cup {key} |->
                   IF q = key THEN entry ELSE m.repos[q]]]

\* the cache directory of a repository; mkdir(repoDir) creates it empty
CacheOf(rs, key) == IF key \in DOMAIN rs THEN rs[key] ELSE EmptyRoot
SetCache(rs, key, root) ==
    [q \in (DOMAIN rs) \cup {key} |-> IF q = key THEN root ELSE rs[q]]

\* A repository reference is the text the caller gives, kept as its segments
\* (the pieces between "/"), each a sequence of tokens: owner/repo, or the
\* path of an http(s) URL.
PlainRef(parts) == [http |-> FALSE, parts |-> parts]
UrlRef(parts) == [http |-> TRUE, parts |-> parts]

\* what indexing past the end of parts yields
Undefined == <<"undefined">>
PartAt(parts, k) == IF k <= Len(parts) THEN parts[k] ELSE Undefined

GIT == ".git"

\* repo.replace(".git", ""): removes the first occurrence
ReplaceFirstGit(seg) ==
    IF \E i \in 1..Len(seg) : seg[i] = GIT
    THEN LET i == CHOOSE j \in 1..Len(seg) :
                     seg[j] = GIT /\ \A h \in 1..(j - 1) : seg[h] # GIT
         IN  SubSeq(seg, 1, i - 1) \o SubSeq(seg, i + 1, Len(seg))
    ELSE seg

\* parseRepoUrl(repo)
parseRepoUrl(ref) ==
    IF ref.http
    THEN [owner |-> PartAt(ref.parts, 1),
          repo |-> IF Len(ref.parts) >= 2 THEN ReplaceFirstGit(ref.parts[2])
                   ELSE Undefined]
    ELSE [owner |-> PartAt(ref.parts, 1), repo |-> PartAt(ref.parts, 2)]

RECURSIVE Concat(_)
\* the text of a token sequence
Concat(tokens) == IF tokens = <<>> THEN "" ELSE Head(tokens) \o Concat(Tail(tokens))

\* `${owner}/${repo}`
KeyOf(parsed) == Concat(parsed.owner) \o "/" \o Concat(parsed.repo)

RECURSIVE JoinSegments(_)
JoinSegments(parts) ==
    IF parts = <<>> THEN ""
    ELSE IF Len(parts) = 1 THEN Concat(parts[1])
    ELSE Concat(parts[1]) \o "/" \o JoinSegments(Tail(parts))

\* the reference as the caller wrote it
RefText(ref) ==
    IF ref.http THEN "https://github.com/" \o JoinSegments(ref.parts)
    ELSE JoinSegments(ref.parts)

DOTDOT == <<"..">>

\* join(REPOS_DIR, owner, repo) throws when a segment is undefined
JoinThrows(parsed) == parsed.owner = Undefined \/ parsed.repo = Undefined

\* where join(REPOS_DIR, owner, repo) lands once ".." is resolved: the cache
\* directory of owner/repo, the staging area (repos/../local), or a directory
\* that is neither
RepoDirOf(parsed) ==
    IF parsed.owner = DOTDOT /\ parsed.repo = <<"local">> THEN "local"
    ELSE IF parsed.owner = DOTDOT \/ parsed.repo = DOTDOT THEN "elsewhere"
    ELSE "cache"

\* the entries below the repository directory
RepoDirRoot(parsed, staged, rs) ==
    IF RepoDirOf(parsed) = "local" THEN staged
    ELSE IF RepoDirOf(parsed) = "cache" THEN CacheOf(rs, KeyOf(parsed))
    ELSE EmptyRoot

\* fetch resolves the dot segments of the request URL before it is sent:
\* .../repos/../local/git/trees/main asks for /local/git/trees/main, which is
\* no repository's tree
AddressesRepository(parsed) ==
    /\ parsed.owner \notin {DOTDOT, <<".">>}
    /\ parsed.repo \notin {DOTDOT, <<".">>}

\* pullFromGitHub from the tree request to the end of its download loop: "ok"
\* or the error raised, the repository directory afterwards, and the counts
PullFetch(parsed, force, rem, staged, rs) ==
    LET key == KeyOf(parsed)
        dir == RepoDirRoot(parsed, staged, rs)
        answer == IF AddressesRepository(parsed) THEN fetchRepoTree(rem, key)
                  ELSE [status |-> "NotFound", tree |-> <<>>]
        settingsFiles == SelectSeq(answer.tree, IsSettingsFile)
    IN  IF answer.status # "ok"
        THEN [status |-> answer.status, root |-> dir, counts |-> NoCounts,
              matching |-> <<>>]
        ELSE IF settingsFiles = <<>>
        THEN [status |-> "NoMatchingItems", root |-> dir, counts |-> NoCounts,
              matching |-> <<>>]
        ELSE LET done == PullLoop(rem.repos[key], settingsFiles, 1, force, dir,
                                  NoCounts)
             IN  [status |-> done.status, root |-> done.root,
                  counts |-> done.counts, matching |-> settingsFiles]

\* the directories join(REPOS_DIR, owner, repo) names, by the text owner/repo,
\* and the staging area, once the repository directory holds root; with ".."
\* segments the directory made is not below the pool
CachesAfter(parsed, rs, root) ==
    IF RepoDirOf(parsed) = "local" THEN rs ELSE SetCache(rs, KeyOf(parsed), root)
StagedAfter(parsed, staged, root) ==
    IF RepoDirOf(parsed) = "local" THEN root ELSE staged

\* the entry pullFromGitHub gives the repository in the manifest
PulledEntry(ref, now, counts) ==
    [url |-> RefText(ref), last_pulled |-> now,
     items_count |-> counts.downloaded + counts.skipped]

\* a call of pullFromGitHub: its arguments, its result or error, the raw
\* fetches it issued, and the caches and manifest before it
PullCall(key, dir, force, status, counts, matching) ==
    [op |-> "pull", repo |-> key, dir |-> dir, force |-> force, status |-> status,
     downloaded |-> counts.downloaded, skipped |-> counts.skipped,
     files |-> counts.files, fetched |-> counts.fetched, matching |-> matching,
     before |-> Snapshot, manifestBefore |-> manifest,
     descriptorBefore |-> descriptor]

\* pullFromGitHub(repoUrl, {force})
Pull(more, refs, forces) ==
    /\ more
    /\ \E ref \in refs, force \in forces, now \in {clock, clock + 1} :
         LET parsed == parseRepoUrl(ref)
             key == KeyOf(parsed)
         IN  /\ clock' = now
             /\ descriptor' = InitDescriptor(descriptor)
             /\ IF JoinThrows(parsed)
                THEN /\ UNCHANGED <<repos, local>>
                     /\ manifest' = InitManifest(manifest)
                     /\ Record(PullCall(key, "none", force, "TypeError", NoCounts, <<>>))
                ELSE LET done == PullFetch(parsed, force, remote, local, repos)
                     IN  /\ repos' = CachesAfter(parsed, repos, done.root)
                         /\ local' = StagedAfter(parsed, local, done.root)
                         /\ manifest' =
                               IF done.status = "ok"
                               THEN SetManifestEntry(
                                        loadManifest(InitManifest(manifest)).manifest,
                                        key, PulledEntry(ref, now, done.counts))
                               ELSE InitManifest(manifest)
                         /\ Record(PullCall(key, RepoDirOf(parsed), force, done.status, done.counts,
                                            done.matching))
    /\ UNCHANGED <<running, user, project, remote, tmp>>

\* remote trees and file texts
Blob(path) == [path |-> path, type |-> "blob"]
Tree(path) == [path |-> path, type |-> "tree"]
Readme == <<"docs", <<"readme", MD>>>>

\* skills/x/SKILL.md, agents/x-1.md and an unrelated docs/readme.md
TreeMixed ==
    << Tree(<<"skills">>), Tree(Skill(X(0))), Blob(Skill(X(0)) \o <<SKILL_MD>>),
       Blob(Agent(X(1))), Blob(Readme) >>

\* a skill with a second file, and an agent
TreeNotes ==
    << Blob(Agent(X(0))), Blob(Skill(X(0)) \o <<NOTES>>),
       Blob(Skill(X(0)) \o <<SKILL_MD>>) >>

\* nothing under the three type directories
TreeDocs == << Blob(Readme), Tree(<<"agents">>) >>

RawOf(tree) ==
    [p \in {tree[k].path : k \in {h \in 1..Len(tree) : tree[h].type = "blob"}} |->
        IF Len(p) = 3 /\ p[3] = NOTES THEN 7 ELSE cA]

Answering(status, tree, failing) ==
    [status |-> status, tree |-> tree, raw |-> RawOf(tree), failing |-> failing]

\* what GitHub can hold for o/r; o/s is a repository that has the mixed tree
RemoteRepos ==
    { Answering(200, TreeMixed, {}),
      Answering(200, TreeMixed, {Agent(X(1))}),
      Answering(200, TreeMixed, {Skill(X(0)) \o <<SKILL_MD>>}),
      Answering(200, TreeNotes, {}),
      Answering(200, TreeNotes, {Skill(X(0)) \o <<NOTES>>}),
      Answering(200, TreeDocs, {}),
      Answering(200, <<>>, {}),
      Answering(404, <<>>, {}),
      Answering(409, <<>>, {}),
      Answering(500, <<>>, {}) }

Remotes ==
    { [repos |-> [k \in {"o/r", "o/s"} |->
                     IF k = "o/r" THEN r ELSE Answering(200, TreeMixed, {})],
       pushes |-> <<>>] : r \in RemoteRepos }

\* repository caches: none, one made by earlier pulls, and ones in which a
\* file or directory sits where the tree has a directory or file
PullCaches ==
    { EmptyMap,
      [k \in {"o/r"} |-> EmptyRoot],
      [k \in {"o/r"} |-> RootOf({<<Agent(X(1)), File(cB)>>})],
      [k \in {"o/r"} |-> RootOf({<<Skill(X(0)), Dir(cA, 0)>>,
                                 <<Agent(X(1)), File(cB)>>})],
      [k \in {"o/r"} |-> RootOf({<<Skill(X(0)), Dir(cB, 3)>>,
                                 <<Agent(X(0)), File(cB)>>})],
      [k \in {"o/r"} |-> RootOf({<<Agent(X(1)), Dir(NoFile, 1)>>})],
      [k \in {"o/r"} |-> RootOf({<<Skill(X(0)), File(cB)>>})] }

PullManifests ==
    { NoManifest, FreshManifest,
      SetManifestEntry(FreshManifest, "o/r",
                       [url |-> "o/r", last_pulled |-> 1, items_count |-> 9]) }

RepoKeys == {"o/r", "o/s"}
RepoRefs == {PlainRef(<<<<"o">>, <<"r">>>>), PlainRef(<<<<"o">>, <<"s">>>>)}

InitPull ==
    /\ user = EmptyRoot
    /\ project = EmptyRoot
    /\ local = EmptyRoot
    /\ repos \in PullCaches
    /\ descriptor = NoDescriptor
    /\ manifest \in PullManifests
    /\ remote \in Remotes
    /\ tmp = EmptyMap
    /\ clock = 1
    /\ running = EmptyMap
    /\ hist = <<>>

\* at most MaxOps pulls
NextPull == Pull(Len(hist) < MaxOps, RepoRefs, BOOLEAN)

SpecPull == InitPull /\ [][NextPull]_vars

\* references the parser lets through: owner/repo twice, the URL of a clone,
\* two with ".." segments, and one without a repository
FrameRefs ==
    { PlainRef(<<<<"o">>, <<"r">>>>),
      PlainRef(<<<<"o">>, <<"s">>>>),
      UrlRef(<<<<"o">>, <<"r", GIT>>>>),
      PlainRef(<<DOTDOT, <<"local">>>>),
      PlainRef(<<DOTDOT, DOTDOT>>),
      PlainRef(<<<<"o">>>>) }

\* caches of o/s alone and of both repositories
FrameCaches ==
    { EmptyMap,
      [k \in {"o/s"} |-> RootOf({<<Agent(X(1)), File(cB)>>})],
      [k \in {"o/r", "o/s"} |->
          IF k = "o/r" THEN RootOf({<<Agent(X(1)), File(cB)>>})
          ELSE RootOf({<<Skill(X(0)), Dir(cB, 1)>>, <<Agent(X(1)), File(cA)>>})] }

FrameManifests ==
    { NoManifest, CorruptManifest,
      SetManifestEntry(FreshManifest, "o/s",
                       [url |-> "o/s", last_pulled |-> 1, items_count |-> 2]),
      SetManifestEntry(
          SetManifestEntry(FreshManifest, "o/s",
                           [url |-> "o/s", last_pulled |-> 1, items_count |-> 2]),
          "o/r", [url |-> "o/r", last_pulled |-> 1, items_count |-> 9]) }

FrameRoots == {EmptyRoot, RootOf({<<Skill(X(0)), Dir(cA, 0)>>, <<Agent(X(1)), File(cB)>>})}

InitPullFrame ==
    /\ user \in FrameRoots
    /\ project \in FrameRoots
    /\ local \in StagedRoots
    /\ repos \in FrameCaches
    /\ descriptor \in {NoDescriptor, updateLocalClsyncJson(NoDescriptor, local)}
    /\ manifest \in FrameManifests
    /\ remote \in Remotes
    /\ tmp = EmptyMap
    /\ clock = 1
    /\ running = EmptyMap
    /\ hist = <<>>

\* one pull, of any of the references
NextPullFrame == Pull(hist = <<>>, FrameRefs, BOOLEAN)

SpecPullFrame == InitPullFrame /\ [][NextPullFrame]_vars

-----------------------------------------------------------------------------
(* Repository client: browse *)

\* the repository descriptor file at the top of a remote tree
CLSYNC_JSON == <<"clsync.json">>

\* file.path.match(/^skills\/[^/]+\/SKILL\.md$/)
IsSkillDescriptor(f) ==
    f.type = "blob" /\ Len(f.path) = 3 /\ f.path[1] = "skills" /\ f.path[3] = SKILL_MD

\* the last segment of a path ends with ".md"
PathEndsWithMd(path) ==
    IF Len(path) = 2 THEN EndsWithMd(path[2]) ELSE path[3] = SKILL_MD

\* basename(file.path, ".md")
BasenameMd(path) ==
    IF Len(path) = 2 THEN SubSeq(path[2], 1, Len(path[2]) - 1) ELSE <<"SKILL">>

\* a blob under agents/ or output-styles/ whose path ends with ".md"
IsMarkdownItem(f) ==
    /\ f.type = "blob" /\ Len(f.path) >= 2
    /\ f.path[1] \in {"agents", "output-styles"}
    /\ PathEndsWithMd(f.path)

\* the items browseRepo infers from a tree: the skills, then agents and
\* output-styles in tree order
InferItems(tree) ==
    LET skills == SelectSeq(tree, IsSkillDescriptor)
        others == SelectSeq(tree, IsMarkdownItem)
    IN  [k \in 1..Len(skills) |->
            [type |-> "skill", name |-> skills[k].path[2],
             path |-> <<"skills", skills[k].path[2]>>]]
        \o [k \in 1..Len(others) |->
               [type |-> IF others[k].path[1] = "agents" THEN "agent"
                         ELSE "output-style",
                name |-> BasenameMd(others[k].path),
                path |-> others[k].path]]

\* a call of browseRepo: the list it returned or its error, the raw fetches issued
BrowseCall(key, status, items) ==
    [op |-> "browse", repo |-> key, status |-> status, items |-> items,
     fetched |-> <<>>, before |-> Snapshot, manifestBefore |-> manifest]

\* browseRepo(repoUrl)
Browse(more, keys) ==
    /\ more
    /\ \E key \in keys :
         LET answer == fetchRepoTree(remote, key)
         IN  Record(BrowseCall(key, answer.status,
                               IF answer.status = "ok" THEN InferItems(answer.tree)
                               ELSE <<>>))
    /\ UNCHANGED <<running, user, project, local, repos, descriptor, manifest, remote,
                   tmp, clock>>

\* a repository that holds a descriptor file with this item list
Described(tree, items) ==
    [status |-> 200, tree |-> tree,
     raw |-> [p \in DOMAIN RawOf(tree) |->
                 IF p = CLSYNC_JSON THEN [items |-> items] ELSE RawOf(tree)[p]],
     failing |-> {}]

DescribedItem(type, name, path) ==
    [type |-> type, name |-> name, path |-> path, description |-> "a"]

\* clsync.json next to the files it lists
TreeDescribed ==
    << Blob(CLSYNC_JSON), Blob(Skill(X(0)) \o <<SKILL_MD>>), Blob(Agent(X(1))) >>

\* clsync.json that lists an agent only, in a tree that also has a skill
TreeStale ==
    << Blob(Agent(X(1))), Blob(CLSYNC_JSON), Blob(Skill(X(0)) \o <<SKILL_MD>>),
       Blob(Skill(X(0)) \o <<NOTES>>), Blob(<<"agents", X(0), SKILL_MD>>) >>

BrowseRemoteRepos ==
    { Described(TreeDescribed,
                << DescribedItem("skill", X(0), Skill(X(0))),
                   DescribedItem("agent", X(1), Agent(X(1))) >>),
      Described(TreeStale, << DescribedItem("agent", X(1), Agent(X(1))) >>),
      Described(TreeDescribed, <<>>),
      Answering(200, TreeMixed, {}),
      Answering(200, TreeNotes, {}),
      Answering(404, <<>>, {}) }

BrowseRemotes ==
    { [repos |-> [k \in {"o/r"} |-> r], pushes |-> <<>>] : r \in BrowseRemoteRepos }

InitBrowse ==
    /\ user = EmptyRoot
    /\ project = EmptyRoot
    /\ local = EmptyRoot
    /\ repos \in PullCaches
    /\ descriptor = NoDescriptor
    /\ manifest \in PullManifests
    /\ remote \in BrowseRemotes
    /\ tmp = EmptyMap
    /\ clock = 1
    /\ running = EmptyMap
    /\ hist = <<>>

\* one call of browseRepo
NextBrowse == Browse(hist = <<>>, RepoKeys)

SpecBrowse == InitBrowse /\ [][NextBrowse]_vars

-----------------------------------------------------------------------------
(* Repository client: push *)

NoRepo == "none"

\* the repository push goes to: the option, or for scope "local" the one
\* clsync.json names as linked
PushTarget(scope, repo, d) ==
    IF repo # NoRepo THEN repo
    ELSE IF scope = "local" /\ d.exists /\ d.fields.linked # "none" THEN d.fields.linked
    ELSE NoRepo

RECURSIVE PushCopyLoop(_, _, _, _)
\* `for (const item of items)` copying into the temporary directory, from item
\* k on; the first copy that fails ends the call
PushCopyLoop(list, k, srcRoot, tempRoot) ==
    IF k > Len(list)
    THEN [ok |-> TRUE, root |-> tempRoot]
    ELSE LET copied == CopyByType(list[k], srcRoot, list[k].path, tempRoot,
                                  list[k].path)
         IN  IF ~copied.ok
             THEN [ok |-> FALSE, root |-> tempRoot]
             ELSE PushCopyLoop(list, k + 1, srcRoot, copied.root)

\* a temporary directory: the items copied into it, and whether clsync.json and
\* README.md were written and the whole committed
TempDir(root, committed) == [root |-> root, committed |-> committed]
TempRoot(t, name) == IF name \in DOMAIN t THEN t[name].root ELSE EmptyRoot
SetTemp(t, name, dir) ==
    [q \in (DOMAIN t) \cup {name} |-> IF q = name THEN dir ELSE t[q]]
RmTemp(t, name) == [q \in (DOMAIN t) \ {name} |-> t[q]]

\* a call of pushToGitHub: arguments, result or error, the repository pushed to
\* and the temporary directory used
PushCall(scope, repo, status, target, count, tempDir) ==
    [op |-> "push", scope |-> scope, repo |-> repo, status |-> status,
     target |-> target, count |-> count, tempDir |-> tempDir,
     before |-> Snapshot, descriptorBefore |-> descriptor, tmpBefore |-> tmp,
     remoteBefore |-> remote]

\* pushToGitHub(scope, {repo}); gitAvailable and pushWorks are what the
\* environment answers to `git --version` and `git push`
Push(more, scopes, repoArgs) ==
    /\ more
    /\ \E scope \in scopes, repo \in repoArgs, gitAvailable \in BOOLEAN,
          pushWorks \in BOOLEAN, now \in {clock, clock + 1} :
         LET inited == IF scope = "local" THEN InitDescriptor(descriptor)
                       ELSE descriptor
             sourceDir == IF scope = "local" THEN local
                          ELSE IF scope = "user" THEN user ELSE project
             target == PushTarget(scope, repo, inited)
         IN  /\ clock' = now
             /\ IF ~gitAvailable
                THEN /\ UNCHANGED <<descriptor, manifest, tmp, remote>>
                     /\ Record(PushCall(scope, repo, "ToolMissing", NoRepo, 0, 0))
                ELSE
                /\ descriptor' = inited
                /\ manifest' = IF scope = "local" THEN InitManifest(manifest)
                               ELSE manifest
                /\ \E list \in ScanLists(sourceDir) :
                     IF list = <<>>
                     THEN /\ UNCHANGED <<tmp, remote>>
                          /\ Record(PushCall(scope, repo, "NoSettings", target, 0, 0))
                     ELSE LET copied == PushCopyLoop(list, 1, sourceDir,
                                                     TempRoot(tmp, now))
                          IN  IF ~copied.ok
                              THEN /\ tmp' = SetTemp(tmp, now,
                                                     TempDir(copied.root, FALSE))
                                   /\ UNCHANGED remote
                                   /\ Record(PushCall(scope, repo, "IOError", target,
                                                      0, now))
                              ELSE IF target = NoRepo
                              THEN /\ tmp' = SetTemp(tmp, now,
                                                     TempDir(copied.root, TRUE))
                                   /\ UNCHANGED remote
                                   /\ Record(PushCall(scope, repo, "prepared", target,
                                                      Len(list), now))
                              ELSE IF ~pushWorks
                              THEN /\ tmp' = SetTemp(tmp, now,
                                                     TempDir(copied.root, TRUE))
                                   /\ UNCHANGED remote
                                   /\ Record(PushCall(scope, repo, "PushFailed",
                                                      target, 0, now))
                              ELSE /\ tmp' = RmTemp(tmp, now)
                                   /\ remote' =
                                         [remote EXCEPT !.pushes =
                                             Append(@, [repo |-> target,
                                                        root |-> copied.root])]
                                   /\ Record(PushCall(scope, repo, "pushed", target,
                                                      Len(list), now))
    /\ UNCHANGED <<running, user, project, local, repos>>

\* clsync.json of the staging area with a linked repository
Linked(d, key) == [d EXCEPT !.exists = TRUE, !.fields.linked = key]

PushRoots ==
    { EmptyRoot,
      RootOf({<<Agent(X(0)), File(cA)>>}),
      RootOf({<<Skill(X(0)), Dir(cA, 1)>>, <<Agent(X(1)), File(cB)>>}),
      RootOf({<<Skill(X(0)), Dir(cTypeAgent, 0)>>}) }

InitPush ==
    /\ user \in PushRoots
    /\ project \in PushRoots
    /\ local \in PushRoots
    /\ repos = EmptyMap
    /\ descriptor \in {NoDescriptor,
                       updateLocalClsyncJson(NoDescriptor, local),
                       Linked(updateLocalClsyncJson(NoDescriptor, local), "o/r")}
    /\ manifest = FreshManifest
    /\ remote = NoRemote
    /\ tmp = EmptyMap
    /\ clock = 1
    /\ running = EmptyMap
    /\ hist = <<>>

PushScopes == {"local", "user", "project"}
RepoArgs == {NoRepo, "o/s"}

\* one call of pushToGitHub
NextPush == Push(hist = <<>>, PushScopes, RepoArgs)

SpecPush == InitPush /\ [][NextPush]_vars

-----------------------------------------------------------------------------
(* Item scanner, entry by entry, over directories that can fail to be read *)

\* an entry stat cannot resolve (a dangling link), and a regular file
\* readFile cannot read
Broken == [kind |-> "broken", content |-> NoFile, extra |-> 0]
Locked(c) == [kind |-> "locked", content |-> c, extra |-> 0]

\* a type directory that is missing or cannot be listed is marked at <<dir, <<>>>>
DirMarker(dir) == <<dir, NoName>>
NoDir(why) == [kind |-> why, content |-> NoFile, extra |-> 0]

\* readdir(dirPath) throws
ReaddirThrows(root, dir) == Has(root, DirMarker(dir))

\* the entries readdir returns for a type directory, in each order it can
EntriesOf(root, dir) == {p \in DOMAIN root : p[1] = dir /\ p[2] # NoName}
ReaddirOrders(root, dir) ==
    LET S == EntriesOf(root, dir)
        n == Cardinality(S)
    IN  {order \in [1..n -> S] : \A i, j \in 1..n : i < j => order[i] # order[j]}

\* stat(entryPath) throws, or the readFile of a regular *.md file throws
EntryThrows(root, p) ==
    \/ root[p].kind = "broken"
    \/ root[p].kind = "locked" /\ EndsWithMd(p[2])

Scanned(raised, items) == [raised |-> raised, items |-> items]

AsSeq(S) == IF S = {} THEN <<>> ELSE <<CHOOSE i \in S : TRUE>>

RECURSIVE ScanEntries(_, _, _, _)
\* `for (const entry of entries)` from entry k on: a skill directory whose
\* SKILL.md cannot be read is passed over, any other throw leaves the loop
ScanEntries(root, order, k, items) ==
    IF k > Len(order) THEN Scanned(FALSE, items)
    ELSE IF EntryThrows(root, order[k]) THEN Scanned(TRUE, items)
    ELSE ScanEntries(root, order, k + 1, items \o AsSeq(ItemsAt(root, order[k])))

\* a type directory scanned without the try/catch around it
NoCatchDir(res) == res

\* `try { ... } catch {}` around the scan of one type directory
CatchDir(res) == Scanned(FALSE, res.items)

ScanDir(root, dir, order) ==
    CatchDir(IF ReaddirThrows(root, dir) THEN Scanned(TRUE, <<>>)
             ELSE ScanEntries(root, order, 1, <<>>))

\* scanItems(baseDir), the three type directories in SETTINGS_DIRS order
ScanBaseDir(root, orders) ==
    LET a == ScanDir(root, SETTINGS_DIRS[1], orders[1])
        b == ScanDir(root, SETTINGS_DIRS[2], orders[2])
        c == ScanDir(root, SETTINGS_DIRS[3], orders[3])
    IN  Scanned(a.raised \/ b.raised \/ c.raised, a.items \o b.items \o c.items)

\* a base directory that does not exist: none of its type directories does
MissingRoot == RootOf({<<DirMarker(SETTINGS_DIRS[k]), NoDir("missing")>> : k \in 1..3})

\* join(REPOS_DIR, repoPath)
RepoPathRoot(rs, key) == IF key \in DOMAIN rs THEN rs[key] ELSE MissingRoot

\* a call of listRepoItems: the directory it scanned, the readdir orders, and
\* the list it returned
ScanCall(key, root, orders, res) ==
    [op |-> "listRepoItems", repo |-> key, root |-> root, orders |-> orders,
     status |-> IF res.raised THEN "raised" ELSE "returned", items |-> res.items,
     before |-> Snapshot]

\* listRepoItems(repoPath)
ListRepoItems(more, keys) ==
    /\ more
    /\ \E key \in keys :
         LET root == RepoPathRoot(repos, key)
         IN  \E o1 \in ReaddirOrders(root, SETTINGS_DIRS[1]),
                o2 \in ReaddirOrders(root, SETTINGS_DIRS[2]),
                o3 \in ReaddirOrders(root, SETTINGS_DIRS[3]) :
                Record(ScanCall(key, root, <<o1, o2, o3>>,
                                ScanBaseDir(root, <<o1, o2, o3>>)))
    /\ UNCHANGED <<running, user, project, local, repos, descriptor, manifest, remote,
                   tmp, clock>>

\* what each type directory of a cached repository can hold
SkillsDirs ==
    { {},
      {<<DirMarker("skills"), NoDir("missing")>>},
      {<<Skill(X(0)), Dir(cA, 0)>>},
      {<<Skill(X(0)), Dir(NoFile, 1)>>, <<Skill(X(1)), Dir(cB, 0)>>},
      {<<Skill(X(0)), Broken>>, <<Skill(X(1)), Dir(cA, 0)>>},
      {<<Skill(X(0) \o <<MD>>), Locked(cA)>>, <<Skill(X(1)), Dir(cNameX, 0)>>} }

AgentsDirs ==
    { {},
      {<<DirMarker("agents"), NoDir("missing")>>},
      {<<DirMarker("agents"), NoDir("unreadable")>>, <<Agent(X(0)), File(cA)>>},
      {<<Agent(X(0)), File(cB)>>},
      {<<Agent(X(0)), Locked(cA)>>, <<Agent(X(1)), File(cA)>>},
      {<<Agent(X(0)), Dir(NoFile, 1)>>, <<<<"agents", X(1)>>, Locked(cB)>>} }

StylesDirs ==
    { {},
      {<<DirMarker("output-styles"), NoDir("unreadable")>>},
      {<<Style(X(0)), File(cA)>>} }

ScanRoots == {RootOf(s \cup a \cup o) : s \in SkillsDirs, a \in AgentsDirs, o \in StylesDirs}

InitScan ==
    /\ user = EmptyRoot
    /\ project = EmptyRoot
    /\ local = EmptyRoot
    /\ repos \in {[k \in {"o/r"} |-> r] : r \in ScanRoots}
    /\ descriptor = NoDescriptor
    /\ manifest = FreshManifest
    /\ remote = NoRemote
    /\ tmp = EmptyMap
    /\ clock = 1
    /\ running = EmptyMap
    /\ hist = <<>>

\* one call of listRepoItems
NextScan == ListRepoItems(hist = <<>>, RepoKeys)

SpecScan == InitScan /\ [][NextScan]_vars

-----------------------------------------------------------------------------
(* Manifest store *)

\* a call that reads the manifest: what the load returned or raised, and the
\* manifest file before the call
ManifestCall(op, status, loaded, listed) ==
    [op |-> op, status |-> status, loaded |-> loaded, listed |-> listed,
     before |-> Snapshot, manifestBefore |-> manifest,
     descriptorBefore |-> descriptor]

\* initClsync()
InitClsync(more) ==
    /\ more
    /\ manifest' = InitManifest(manifest)
    /\ descriptor' = InitDescriptor(descriptor)
    /\ Record(ManifestCall("initClsync", "ok", NoManifest, EmptyMap))
    /\ UNCHANGED <<running, user, project, local, repos, remote, tmp, clock>>

\* loadManifest()
LoadManifest(more) ==
    /\ more
    /\ LET res == loadManifest(manifest)
       IN  Record(ManifestCall("loadManifest", res.status, res.manifest, EmptyMap))
    /\ UNCHANGED <<running, user, project, local, repos, descriptor, manifest, remote,
                   tmp, clock>>

\* listPulledRepos(): initClsync, loadManifest, then a scan per listed repository
ListPulledRepos(more) ==
    /\ more
    /\ manifest' = InitManifest(manifest)
    /\ descriptor' = InitDescriptor(descriptor)
    /\ LET res == loadManifest(InitManifest(manifest))
       IN  Record(ManifestCall("listPulledRepos", res.status, res.manifest,
                  IF res.status # "ok" THEN EmptyMap
                  ELSE [name \in DOMAIN res.manifest.repos |->
                           scanItems(RepoPathRoot(repos, name))]))
    /\ UNCHANGED <<running, user, project, local, repos, remote, tmp, clock>>

ManifestFiles == PullManifests \cup {CorruptManifest, BareManifest}

InitManifests ==
    /\ user = EmptyRoot
    /\ project = EmptyRoot
    /\ local \in StagedRoots
    /\ repos \in PullCaches
    /\ descriptor \in {NoDescriptor, updateLocalClsyncJson(NoDescriptor, local)}
    /\ manifest \in ManifestFiles
    /\ remote = NoRemote
    /\ tmp = EmptyMap
    /\ clock = 1
    /\ running = EmptyMap
    /\ hist = <<>>

\* at most MaxOps calls that initialise or read the manifest
NextManifests ==
    \/ InitClsync(Len(hist) < MaxOps)
    \/ LoadManifest(Len(hist) < MaxOps)
    \/ ListPulledRepos(Len(hist) < MaxOps)

SpecManifests == InitManifests /\ [][NextManifests]_vars

-----------------------------------------------------------------------------
(* Concurrent invocations.  An invocation is suspended at each `await`; its   *)
(* steps are the stretches of the handler between the awaits at which another *)
(* invocation can see or change the shared files.                             *)

Invocations == {1, 2}

SetRunning(r, p, st) == [q \in (DOMAIN r) \cup {p} |-> IF q = p THEN st ELSE r[q]]
At(p, pc) == p \in DOMAIN running /\ running[p].pc = pc

\* the manifest saves the invocations made so far
SavesSoFar == Cardinality({q \in DOMAIN running : running[q].saveNo > 0})

\* a pull in flight: where it is, what it downloaded, the manifest it loaded
\* (after how many saves) and the manifest it is about to save
PullState(pc, ref, key, status, counts, loaded, sawSaves, toSave, saveNo) ==
    [op |-> "pull", pc |-> pc, ref |-> ref, repo |-> key, status |-> status,
     counts |-> counts, loaded |-> loaded, sawSaves |-> sawSaves,
     toSave |-> toSave, saveNo |-> saveNo]

\* pullFromGitHub from its start to the end of the download loop
PullBegin(ids, refs, forces) ==
    /\ \E p \in ids, ref \in refs, force \in forces :
         LET parsed == parseRepoUrl(ref)
             done == PullFetch(parsed, force, remote, local, repos)
         IN  /\ p \notin DOMAIN running
             /\ ~JoinThrows(parsed)
             /\ descriptor' = InitDescriptor(descriptor)
             /\ manifest' = InitManifest(manifest)
             /\ repos' = CachesAfter(parsed, repos, done.root)
             /\ local' = StagedAfter(parsed, local, done.root)
             /\ running' = SetRunning(running, p,
                   PullState(IF done.status = "ok" THEN "load" ELSE "raised", ref,
                             KeyOf(parsed), done.status, done.counts, NoManifest, 0,
                             NoManifest, 0))
    /\ UNCHANGED <<user, project, remote, tmp, clock, hist>>

\* `const manifest = await loadManifest(); manifest.repos[key] = {...}`
PullLoad(ids) ==
    /\ \E p \in ids, now \in {clock, clock + 1} :
         /\ At(p, "load")
         /\ clock' = now
         /\ LET st == running[p]
                loaded == loadManifest(manifest).manifest
            IN  running' = SetRunning(running, p,
                   [st EXCEPT !.pc = "save", !.loaded = loaded,
                              !.sawSaves = SavesSoFar,
                              !.toSave = SetManifestEntry(loaded, st.repo,
                                            PulledEntry(st.ref, now, st.counts))])
    /\ UNCHANGED <<user, project, local, repos, descriptor, manifest, remote, tmp, hist>>

\* `await saveManifest(manifest); return results`
PullSave(ids) ==
    /\ \E p \in ids :
         /\ At(p, "save")
         /\ manifest' = running[p].toSave
         /\ running' = SetRunning(running, p,
               [running[p] EXCEPT !.pc = "returned", !.saveNo = SavesSoFar + 1])
    /\ UNCHANGED <<user, project, local, repos, descriptor, remote, tmp, clock, hist>>

InitPullRace ==
    /\ user = EmptyRoot
    /\ project = EmptyRoot
    /\ local = EmptyRoot
    /\ repos \in PullCaches
    /\ descriptor = NoDescriptor
    /\ manifest \in PullManifests
    /\ remote \in Remotes
    /\ tmp = EmptyMap
    /\ clock = 1
    /\ running = EmptyMap
    /\ hist = <<>>

\* two invocations of pull, each run once, their steps interleaved in any order
NextPullRace ==
    \/ PullBegin(Invocations, RepoRefs, {FALSE})
    \/ PullLoad(Invocations)
    \/ PullSave(Invocations)

SpecPullRace == InitPullRace /\ [][NextPullRace]_vars

\* a push in flight: where it is, its arguments, the items it scanned, the
\* root it copies from, and the clsync-push-<ms> directory it uses (0: none yet)
PushState(pc, scope, repo, target, list, sourceDir, tempDir, status) ==
    [op |-> "push", pc |-> pc, scope |-> scope, repo |-> repo, target |-> target,
     list |-> list, sourceDir |-> sourceDir, tempDir |-> tempDir, status |-> status,
     saveNo |-> 0]

\* pushToGitHub from its start to `await mkdir(tempDir, {recursive: true})`
PushBegin(ids, scopes, repoArgs) ==
    /\ \E p \in ids, scope \in scopes, repo \in repoArgs, gitAvailable \in BOOLEAN,
          now \in {clock, clock + 1} :
         LET inited == IF scope = "local" THEN InitDescriptor(descriptor)
                       ELSE descriptor
             sourceDir == IF scope = "local" THEN local
                          ELSE IF scope = "user" THEN user ELSE project
             target == PushTarget(scope, repo, inited)
         IN  /\ p \notin DOMAIN running
             /\ clock' = now
             /\ IF ~gitAvailable
                THEN /\ UNCHANGED <<descriptor, manifest, tmp>>
                     /\ running' = SetRunning(running, p,
                           PushState("raised", scope, repo, NoRepo, <<>>, sourceDir,
                                     0, "ToolMissing"))
                ELSE
                /\ descriptor' = inited
                /\ manifest' = IF scope = "local" THEN InitManifest(manifest)
                               ELSE manifest
                /\ \E list \in ScanLists(sourceDir) :
                     IF list = <<>>
                     THEN /\ UNCHANGED tmp
                          /\ running' = SetRunning(running, p,
                                PushState("raised", scope, repo, target, list,
                                          sourceDir, 0, "NoSettings"))
                     ELSE /\ tmp' = IF now \in DOMAIN tmp THEN tmp
                                    ELSE SetTemp(tmp, now, TempDir(EmptyRoot, FALSE))
                          /\ running' = SetRunning(running, p,
                                PushState("copy", scope, repo, target, list,
                                          sourceDir, now, "running"))
    /\ UNCHANGED <<user, project, local, repos, remote, hist>>

\* the loop that copies the items; mkdir(dirname(destPath), {recursive: true})
\* makes the directory again when it is gone
PushCopy(ids) ==
    /\ \E p \in ids :
         /\ At(p, "copy")
         /\ LET st == running[p]
                copied == PushCopyLoop(st.list, 1, st.sourceDir,
                                       TempRoot(tmp, st.tempDir))
                wasCommitted == st.tempDir \in DOMAIN tmp /\ tmp[st.tempDir].committed
            IN  /\ tmp' = SetTemp(tmp, st.tempDir, TempDir(copied.root, wasCommitted))
                /\ running' = SetRunning(running, p,
                      IF copied.ok THEN [st EXCEPT !.pc = "commit"]
                      ELSE [st EXCEPT !.pc = "raised", !.status = "IOError"])
    /\ UNCHANGED <<user, project, local, repos, descriptor, manifest, remote, clock,
                   hist>>

\* clsync.json and README.md written, `git init`, `git add -A`, `git commit`;
\* without a repository to push to the call returns here
PushCommit(ids) ==
    /\ \E p \in ids :
         /\ At(p, "commit")
         /\ LET st == running[p]
            IN  IF st.tempDir \notin DOMAIN tmp
                THEN /\ UNCHANGED tmp
                     /\ running' = SetRunning(running, p,
                           [st EXCEPT !.pc = "raised", !.status = "IOError"])
                ELSE /\ tmp' = SetTemp(tmp, st.tempDir,
                                       TempDir(tmp[st.tempDir].root, TRUE))
                     /\ running' = SetRunning(running, p,
                           IF st.target = NoRepo
                           THEN [st EXCEPT !.pc = "returned", !.status = "prepared"]
                           ELSE [st EXCEPT !.pc = "send"])
    /\ UNCHANGED <<user, project, local, repos, descriptor, manifest, remote, clock,
                   hist>>

\* `git push`, then rm(tempDir, {recursive: true, force: true})
PushSend(ids) ==
    /\ \E p \in ids, pushWorks \in BOOLEAN :
         /\ At(p, "send")
         /\ LET st == running[p]
            IN  IF st.tempDir \notin DOMAIN tmp \/ ~pushWorks
                THEN /\ UNCHANGED <<tmp, remote>>
                     /\ running' = SetRunning(running, p,
                           [st EXCEPT !.pc = "raised", !.status = "PushFailed"])
                ELSE /\ remote' = [remote EXCEPT !.pushes =
                                      Append(@, [repo |-> st.target,
                                                 root |-> tmp[st.tempDir].root])]
                     /\ tmp' = RmTemp(tmp, st.tempDir)
                     /\ running' = SetRunning(running, p,
                           [st EXCEPT !.pc = "returned", !.status = "pushed"])
    /\ UNCHANGED <<user, project, local, repos, descriptor, manifest, clock, hist>>

PushRaceRoots ==
    { RootOf({<<Agent(X(0)), File(cA)>>}),
      RootOf({<<Skill(X(0)), Dir(cA, 1)>>, <<Agent(X(1)), File(cB)>>}) }

InitPushRace ==
    /\ user \in PushRaceRoots \cup {EmptyRoot}
    /\ project = EmptyRoot
    /\ local \in PushRaceRoots
    /\ repos = EmptyMap
    /\ descriptor \in {updateLocalClsyncJson(NoDescriptor, local),
                       Linked(updateLocalClsyncJson(NoDescriptor, local), "o/r")}
    /\ manifest = FreshManifest
    /\ remote = NoRemote
    /\ tmp = EmptyMap
    /\ clock = 1
    /\ running = EmptyMap
    /\ hist = <<>>

\* two invocations of push, each run once, their steps interleaved in any order
NextPushRace ==
    \/ PushBegin(Invocations, {"local", "user"}, RepoArgs)
    \/ PushCopy(Invocations)
    \/ PushCommit(Invocations)
    \/ PushSend(Invocations)

SpecPushRace == InitPushRace /\ [][NextPushRace]_vars

\* a promote or demote in flight: where it is, its arguments, the item found,
\* the name it is stored under, and the two roots when it started
MoveState(pc, op, itemName, force, rename, item, targetName, status, src, dst) ==
    [op |-> op, pc |-> pc, name |-> itemName, force |-> force, rename |-> rename,
     item |-> item, targetName |-> targetName, status |-> status,
     srcBefore |-> src, dstBefore |-> dst, saveNo |-> 0]

Moved(st, src, dst) == [st |-> st, src |-> src, dst |-> dst]

\* a move that removes the source before it copies
MoveStepDeleteFirst(st, src, dst, rmWorks) ==
    IF st.pc = "copy"
    THEN IF rmWorks
         THEN Moved([st EXCEPT !.pc = "delete"], Rm(src, st.item.path), dst)
         ELSE Moved([st EXCEPT !.pc = "raised", !.status = "IOError"], src, dst)
    ELSE LET copied == CopyByType(st.item, src, st.item.path, dst,
                                  TargetPath(st.item, st.targetName))
         IN  IF copied.ok
             THEN Moved([st EXCEPT !.pc = "returned", !.status = "ok"], src,
                        copied.root)
             ELSE Moved([st EXCEPT !.pc = "raised", !.status = "IOError"], src, dst)

\* the step of promoteItem / demoteItem at "copy" (mkdir, then cp or
\* readFile/writeFile) and at "delete" (rm of the source, then the result);
\* rmWorks is whether the filesystem lets the source be removed
MoveStep(st, src, dst, rmWorks) ==
    IF st.pc = "copy"
    THEN LET copied == CopyByType(st.item, src, st.item.path, dst,
                                  TargetPath(st.item, st.targetName))
         IN  IF copied.ok
             THEN Moved([st EXCEPT !.pc = "delete"], src, copied.root)
             ELSE Moved([st EXCEPT !.pc = "raised", !.status = "IOError"], src, dst)
    ELSE IF rmWorks
         THEN Moved([st EXCEPT !.pc = "returned", !.status = "ok"],
                    Rm(src, st.item.path), dst)
         ELSE Moved([st EXCEPT !.pc = "raised", !.status = "IOError"], src, dst)

\* promoteItem / demoteItem from the start to the conflict check
MoveBegin(ids, names, forces, renames) ==
    /\ \E p \in ids, op \in {"promote", "demote"}, itemName \in names,
          force \in forces, rename \in renames :
         LET src == IF op = "promote" THEN project ELSE user
             dst == IF op = "promote" THEN user ELSE project
             found == FindByName(src, itemName)
         IN  /\ p \notin DOMAIN running
             /\ IF found = {}
                THEN running' = SetRunning(running, p,
                        MoveState("raised", op, itemName, force, rename, NoItem,
                                  NoName, "NotFound", src, dst))
                ELSE \E item \in found :
                       running' = SetRunning(running, p,
                          IF ConflictRaised(itemExistsInTarget(itemName, item.type, dst),
                                            force, rename)
                          THEN MoveState("raised", op, itemName, force, rename, item,
                                         NoName, "Conflict", src, dst)
                          ELSE MoveState("copy", op, itemName, force, rename, item,
                                         TargetName(itemName, rename), "running",
                                         src, dst))
    /\ UNCHANGED <<user, project, local, repos, descriptor, manifest, remote, tmp,
                   clock, hist>>

\* the next step of a move in flight
MoveNext(ids) ==
    /\ \E p \in ids, rmWorks \in BOOLEAN :
         /\ p \in DOMAIN running
         /\ running[p].pc \in {"copy", "delete"}
         /\ LET st == running[p]
                src == IF st.op = "promote" THEN project ELSE user
                dst == IF st.op = "promote" THEN user ELSE project
                res == MoveStep(st, src, dst, rmWorks)
            IN  /\ running' = SetRunning(running, p, res.st)
                /\ project' = IF st.op = "promote" THEN res.src ELSE res.dst
                /\ user' = IF st.op = "promote" THEN res.dst ELSE res.src
    /\ UNCHANGED <<local, repos, descriptor, manifest, remote, tmp, clock, hist>>

InitMoveSteps == InitOver(SeqRoots, SeqRoots, {EmptyRoot})

\* one promote or demote, step by step
NextMoveSteps ==
    \/ MoveBegin({1}, ItemNames, BOOLEAN, Renames)
    \/ MoveNext({1})

SpecMoveSteps == InitMoveSteps /\ [][NextMoveSteps]_vars

-----------------------------------------------------------------------------
(* Vocabulary of the claims *)

\* the root holds an item of this type and name
HoldsItem(root, type, name) ==
    \E i \in scanItems(root) : i.type = type /\ i.name = name

\* the root holds an item of this name, of any type
HoldsNamed(root, name) == \E i \in scanItems(root) : i.name = name

\* no two items of the scan share (type, name)
ScanUnique(root) ==
    \A i, j \in scanItems(root) : (i.type = j.type /\ i.name = j.name) => i = j

IsMove(c) == c.op \in {"promote", "demote"}
SrcBefore(c) == IF c.op = "promote" THEN c.before.project ELSE c.before.user
DstBefore(c) == IF c.op = "promote" THEN c.before.user ELSE c.before.project
SrcAfter(c) == IF c.op = "promote" THEN project ELSE user
DstAfter(c) == IF c.op = "promote" THEN user ELSE project
NoFlags(c) == ~c.force /\ c.rename = NoName

RootsNow == [user |-> user, project |-> project, local |-> local, repos |-> repos]

-----------------------------------------------------------------------------
(* C1 *)

\* C1: for every root, whatever its type directories contain, scan(R) holds no
\* two items with the same (type, name) pair.
C1_ScanNeverRepeats == ScanUnique(user) /\ ScanUnique(project) /\ ScanUnique(local)

-----------------------------------------------------------------------------
(* C2 *)

\* C2: when the source root holds an item named n and the destination root holds
\* no item of the same type and name, promote(n) / demote(n) without force or
\* rename returns normally; afterwards the destination holds the item under name
\* n with content identical to the source, the source no longer holds it, and
\* renamed = false.
C2_PlainMoveMoves ==
    hist # <<>> =>
        LET c == hist[1] IN
        (/\ IsMove(c) /\ NoFlags(c)
         /\ c.status # "NotFound"
         /\ ~HoldsItem(DstBefore(c), c.item.type, c.name))
        => /\ c.status = "ok"
           /\ ~c.renamed
           /\ \E j \in scanItems(DstAfter(c)) :
                 /\ j.type = c.item.type /\ j.name = c.name
                 /\ DstAfter(c)[j.at] = SrcBefore(c)[c.item.at]
           /\ ~HoldsItem(SrcAfter(c), c.item.type, c.name)

-----------------------------------------------------------------------------
(* C3 *)

\* what a root holds as items: type, name, metadata and the stored content
ItemView(root) ==
    {[type |-> i.type, name |-> i.name, description |-> i.description,
      stored |-> root[i.at]] : i \in scanItems(root)}

\* hist[2] is a promote of an item with no same-type same-name item in the user
\* root, and hist[1] the demote of the same name, both without force or rename
PromoteThenDemote ==
    /\ Len(hist) >= 2
    /\ hist[2].op = "promote" /\ NoFlags(hist[2])
    /\ hist[2].status # "NotFound"
    /\ ~HoldsItem(hist[2].before.user, hist[2].item.type, hist[2].name)
    /\ hist[1].op = "demote" /\ NoFlags(hist[1])
    /\ hist[1].name = hist[2].name

\* C3: promote(n) followed by demote(n), without force or rename and with no
\* same-type same-name item in the user root, leaves both roots with the item
\* sets, metadata and content they had before the promote.
C3_PromoteDemoteRestores ==
    PromoteThenDemote =>
        /\ ItemView(project) = ItemView(hist[2].before.project)
        /\ ItemView(user) = ItemView(hist[2].before.user)

-----------------------------------------------------------------------------
(* C4 *)

\* the call moved an item whose (type, name) the destination already held
Collides(c) ==
    /\ IsMove(c)
    /\ c.status # "NotFound"
    /\ HoldsItem(DstBefore(c), c.item.type, c.name)

\* C4: when the destination already holds an item of the moved item's type and
\* name, promote/demote with neither force nor rename raises a Conflict error
\* carrying a suggested name and leaves both roots exactly as they were.
C4_ConflictRaisedNothingMoved ==
    hist # <<>> =>
        LET c == hist[1] IN
        (Collides(c) /\ NoFlags(c))
        => /\ c.status = "Conflict"
           /\ c.suggested # NoName
           /\ user = c.before.user
           /\ project = c.before.project

C4_Witness ==
    /\ hist # <<>>
    /\ Collides(hist[1]) /\ NoFlags(hist[1])
    /\ hist[1].op = "promote"
    /\ hist[1].item.type = "skill"

-----------------------------------------------------------------------------
(* C5 *)

\* C5: the name a Conflict error suggests for x is x-k for the smallest k >= 1
\* such that the destination holds no item of the same type named x-k; it never
\* collides with a destination item of that type.
C5_SuggestionIsSmallestFree ==
    hist # <<>> =>
        LET c == hist[1] IN
        c.status = "Conflict" =>
            \E k \in 1..(Cardinality(DOMAIN DstBefore(c)) + 1) :
                /\ c.suggested = Suffixed(c.name, k)
                /\ ~HoldsItem(DstBefore(c), c.item.type, c.suggested)
                /\ \A j \in 1..(k - 1) :
                       HoldsItem(DstBefore(c), c.item.type, Suffixed(c.name, j))

\* with x and x-1 in the destination the suggestion is x-2
C5_Witness ==
    /\ hist # <<>>
    /\ hist[1].status = "Conflict"
    /\ hist[1].name = X(0)
    /\ HoldsItem(DstBefore(hist[1]), hist[1].item.type, X(1))
    /\ hist[1].suggested = X(2)

-----------------------------------------------------------------------------
(* C6 *)

\* both roots hold agent x and the call is demote(x, {rename: x-1})
DemoteRenamed ==
    /\ hist # <<>>
    /\ hist[1].op = "demote"
    /\ hist[1].name = X(0) /\ hist[1].rename = X(1)
    /\ HoldsItem(hist[1].before.user, "agent", X(0))
    /\ HoldsItem(hist[1].before.project, "agent", X(0))

\* C6: when both roots hold agent notifier, demote("notifier", {rename:
\* "notifier-1"}) succeeds and the user root's notifier is untouched: still
\* present in the user root with unchanged content.
C6_UserItemUntouched ==
    DemoteRenamed =>
        /\ hist[1].status = "ok"
        /\ HoldsItem(user, "agent", X(0))
        /\ \A i \in scanItems(hist[1].before.user) :
               (i.type = "agent" /\ i.name = X(0))
               => Has(user, i.at) /\ user[i.at] = hist[1].before.user[i.at]

\* C6 (amended): when both roots hold agent notifier, demote("notifier",
\* {rename: "notifier-1"}) raises no Conflict error and it is the project root
\* that keeps what it had: every entry of the project root other than the one
\* at the rename's target path, its file agents/notifier.md included, is still
\* there with unchanged content; when the call returns normally the moved
\* entry is gone from the user root and the target path holds an entry.
C6_ProjectItemUntouched ==
    DemoteRenamed =>
        LET c == hist[1]
            target == TargetPath(c.item, c.rename)
        IN  /\ c.status # "Conflict"
            /\ \A p \in DOMAIN c.before.project :
                   p # target => Has(project, p) /\ project[p] = c.before.project[p]
            /\ c.status = "ok" => ~Has(user, c.item.path) /\ Has(project, target)

C6_Witness ==
    /\ DemoteRenamed
    /\ hist[1].status = "ok"
    /\ hist[1].item.type = "agent"
    /\ Has(hist[1].before.project, Agent(X(0)))
    /\ project[Agent(X(0))] = hist[1].before.project[Agent(X(0))]
    /\ Has(project, Agent(X(1)))
    /\ ~Has(user, Agent(X(0)))

-----------------------------------------------------------------------------
(* C7 *)

\* C7: when the destination already holds an item of the same type and name and
\* force is true (no rename), promote/demote raises no error; afterwards the
\* destination item of that type and name has the content of the moved source
\* item and the source root no longer holds the item.
C7_ForceOverwrites ==
    hist # <<>> =>
        LET c == hist[1] IN
        (Collides(c) /\ c.force /\ c.rename = NoName)
        => /\ c.status = "ok"
           /\ HoldsItem(DstAfter(c), c.item.type, c.name)
           /\ \A j \in scanItems(DstAfter(c)) :
                 (j.type = c.item.type /\ j.name = c.name)
                 => DstAfter(c)[j.at] = SrcBefore(c)[c.item.at]
           /\ ~HoldsItem(SrcAfter(c), c.item.type, c.name)

-----------------------------------------------------------------------------
(* C8 *)

\* C8: when rename is supplied, promote/demote performs no collision check for
\* the new name: the item is written into the destination under the rename name
\* even when the destination already holds an item of that type with that name
\* (including rename equal to the original name), which is overwritten without
\* any error although force is false.
C8_RenameNeverChecked ==
    hist # <<>> =>
        LET c == hist[1] IN
        (IsMove(c) /\ c.rename # NoName /\ c.status # "NotFound")
        => /\ c.status = "ok"
           /\ c.newName = c.rename
           /\ Has(DstAfter(c), TargetPath(c.item, c.rename))
           /\ DstAfter(c)[TargetPath(c.item, c.rename)].content
                  = SrcBefore(c)[c.item.at].content

-----------------------------------------------------------------------------
(* C9 *)

\* the root a call looks its item up in
LookupRoot(c) ==
    IF c.op = "promote" THEN c.before.project
    ELSE IF c.op = "demote" THEN c.before.user
    ELSE IF c.op = "stage"
         THEN (IF c.scope = "project" THEN c.before.project ELSE c.before.user)
    ELSE IF c.op = "unstage" THEN c.before.local
    ELSE IF c.source = "local" THEN c.before.local
    ELSE c.before.repos[c.source]

\* C9: stage, unstage, apply, promote and demote, called with a name no item of
\* the source root carries, raise Not-Found and change no item of the staging
\* area, the repository caches, the user root or the project root.
C9_NotFoundChangesNothing ==
    hist # <<>> =>
        LET c == hist[1] IN
        ~HoldsNamed(LookupRoot(c), c.name)
        => /\ c.status = "NotFound"
           /\ RootsNow = c.before

\* promote of a name the project root lacks and the user root holds
C9_Witness ==
    /\ hist # <<>>
    /\ hist[1].op = "promote"
    /\ ~HoldsNamed(hist[1].before.project, hist[1].name)
    /\ HoldsNamed(hist[1].before.user, hist[1].name)
    /\ hist[1].before.project # EmptyRoot
    /\ hist[1].status = "NotFound"

-----------------------------------------------------------------------------
(* C10 *)

\* hist[2] is a stage that found its item, hist[1] the unstage of the same name
StageThenUnstage ==
    /\ Len(hist) >= 2
    /\ hist[2].op = "stage" /\ hist[2].status # "NotFound"
    /\ hist[1].op = "unstage" /\ hist[1].name = hist[2].name

\* C10: for every item of a source scope and every prior content of the staging
\* area, stage(item) followed by unstage(item) leaves the staging area with
\* exactly the set of items it held before the stage.
C10_StageUnstageRestores ==
    StageThenUnstage => ItemView(local) = ItemView(hist[2].before.local)


\* the unstage removed the copy the stage made, at a path that was free
StagedAtFreePath ==
    /\ StageThenUnstage
    /\ hist[2].status = "ok" /\ hist[1].status = "ok"
    /\ hist[1].item.path = hist[2].item.path
    /\ ~Has(hist[2].before.local, hist[2].item.path)

\* C10 (amended): when stage(item) and unstage(item) both return normally and
\* report the same item path, and the staging area held nothing at that path
\* before the stage (the item was not staged yet), the staging area is left
\* with exactly the entries, hence the items, it held before the stage.
C10_StageUnstageRestoresFreePath ==
    StagedAtFreePath => local = hist[2].before.local

C10_Witness ==
    /\ StagedAtFreePath
    /\ hist[2].before.local # EmptyRoot
    /\ local = hist[2].before.local

-----------------------------------------------------------------------------
(* C11 *)

\* hist[2] is a stage, hist[1] the stage of the same name from the same scope
\* (no call touches the source scope in between)
StageTwice ==
    /\ Len(hist) >= 2
    /\ hist[2].op = "stage"
    /\ hist[1].op = "stage"
    /\ hist[1].name = hist[2].name /\ hist[1].scope = hist[2].scope

\* C11: staging is idempotent: with the source scope unchanged in between,
\* stage(name, scope) run twice leaves the staging area with the same items and
\* item contents as running it once, and the second run overwrites the staged
\* copy without raising.
C11_StageTwiceSameAsOnce ==
    StageTwice =>
        /\ hist[1].status = hist[2].status
        /\ hist[2].status # "NotFound" => hist[1].item = hist[2].item
        /\ local = hist[1].before.local
        /\ ItemView(local) = ItemView(hist[1].before.local)

\* the first stage replaced an older staged copy with other content, and the
\* second found the copy of the first in its place
C11_Witness ==
    /\ StageTwice
    /\ hist[2].status = "ok" /\ hist[1].status = "ok"
    /\ hist[1].item.type = "skill"
    /\ Has(hist[2].before.local, hist[2].item.path)
    /\ hist[2].before.local[hist[2].item.path] # local[hist[2].item.path]
    /\ Has(hist[1].before.local, hist[1].item.path)

-----------------------------------------------------------------------------
(* C12 *)

\* hist[1] is a stageAll, and the root it scanned
IsStageAll == hist # <<>> /\ hist[1].op = "stageAll"
BatchSource(c) ==
    IF c.op = "stageAll"
    THEN (IF c.scope = "project" THEN c.before.project ELSE c.before.user)
    ELSE IF c.source = "local" THEN c.before.local
    ELSE c.before.repos[c.source]

NoErrorEntries(c) == \A k \in 1..Len(c.results) : ~c.results[k].error

\* C12: when stageAll(scope) returns with no error entries, every (type, name)
\* item of the source scope, items of different types that share a name
\* included, is present in the staging area with the source's content, and the
\* result list has exactly one entry per scanned item describing that item.
C12_StageAllStagesEveryItem ==
    (IsStageAll /\ NoErrorEntries(hist[1])) =>
        LET c == hist[1]
            src == BatchSource(c)
        IN  /\ \A i \in scanItems(src) :
                   \E j \in scanItems(local) :
                       /\ j.type = i.type /\ j.name = i.name
                       /\ local[j.at].content = src[i.at].content
            /\ Len(c.results) = Cardinality(scanItems(src))
            /\ \A k \in 1..Len(c.results) : c.results[k].item = c.list[k]

-----------------------------------------------------------------------------
(* C13 *)

IsBatch(c) == c.op \in {"stageAll", "applyAll"}
BatchTargetAfter(c) ==
    IF c.op = "stageAll" THEN local
    ELSE IF c.scope = "project" THEN project ELSE user
BatchTargetBefore(c) ==
    IF c.op = "stageAll" THEN c.before.local
    ELSE IF c.scope = "project" THEN c.before.project ELSE c.before.user

\* the copy entry k reports is in the destination: copying it again changes nothing
StaysCopied(c, k) ==
    LET item == c.results[k].item
    IN  CopyByType(item, BatchSource(c), item.path,
                   BatchTargetAfter(c), item.path).root = BatchTargetAfter(c)

\* no later entry wrote to the path entry k wrote to
NotOverwrittenLater(c, k) ==
    \A h \in (k + 1)..Len(c.results) :
        c.results[h].error \/ c.results[h].item.path # c.results[k].item.path

\* C13: in stageAll and applyAll a failure on one item is recorded as an error
\* entry for that item and never aborts the batch: every later item is still
\* processed, items copied before the failure stay copied (no rollback), and
\* the call returns a list instead of raising.
C13_BatchNeverAborts ==
    (hist # <<>> /\ IsBatch(hist[1])) =>
        LET c == hist[1] IN
        /\ c.status = "returned"
        /\ Len(c.results) = Len(c.list)
        /\ \A k \in 1..Len(c.results) :
              IF c.results[k].error
              THEN c.results[k].item = c.list[k]
              ELSE /\ c.results[k].item.name = c.list[k].name
                   /\ NotOverwrittenLater(c, k) => StaysCopied(c, k)
        /\ \A p \in DOMAIN BatchTargetBefore(c) : Has(BatchTargetAfter(c), p)

\* an item failed, an item before it and an item after it were copied
C13_Witness ==
    /\ hist # <<>> /\ IsBatch(hist[1])
    /\ Len(hist[1].results) = 3
    /\ ~hist[1].results[1].error /\ StaysCopied(hist[1], 1)
    /\ hist[1].results[2].error
    /\ ~hist[1].results[3].error /\ StaysCopied(hist[1], 3)
    /\ BatchTargetAfter(hist[1]) # BatchTargetBefore(hist[1])

-----------------------------------------------------------------------------
(* Vocabulary of the pull claims *)

IsPull(c) == c.op = "pull"

\* the tree GitHub lists for the repository of a call, and its entries that are
\* blobs under skills/, agents/ or output-styles/
TreeOf(c) == IF c.repo \in DOMAIN remote.repos THEN remote.repos[c.repo].tree ELSE <<>>
MatchingPaths(c) ==
    {TreeOf(c)[k].path : k \in {h \in 1..Len(TreeOf(c)) :
        /\ TreeOf(c)[h].type = "blob"
        /\ Len(TreeOf(c)[h].path) >= 2
        /\ TreeOf(c)[h].path[1] \in {"skills", "agents", "output-styles"}}}
OtherPaths(c) ==
    {TreeOf(c)[k].path : k \in 1..Len(TreeOf(c))} \ MatchingPaths(c)
RemoteText(c, path) == remote.repos[c.repo].raw[path]

\* the tree request of the call was answered with a tree
TreeAnswered(c) ==
    /\ c.repo \in DOMAIN remote.repos
    /\ remote.repos[c.repo].status = 200

\* the cache of the call's repository before and after the call
CacheBefore(c) == CacheOf(c.before.repos, c.repo)
CacheAfter(c) == CacheOf(repos, c.repo)

\* the files of a root: the paths at which a file is stored, and its text
FilePaths(root) ==
    {<<p[1], p[2]>> : p \in {q \in DOMAIN root : root[q].kind = "file"}}
        \cup {<<p[1], p[2], SKILL_MD>> :
                 p \in {q \in DOMAIN root : root[q].kind = "dir"
                                              /\ root[q].content.body # 0}}
        \cup {<<p[1], p[2], NOTES>> :
                 p \in {q \in DOMAIN root : root[q].kind = "dir" /\ root[q].extra # 0}}
FileText(root, path) ==
    IF Len(path) = 2 THEN root[path].content
    ELSE IF path[3] = SKILL_MD THEN root[<<path[1], path[2]>>].content
    ELSE root[<<path[1], path[2]>>].extra

SeqToSet(s) == {s[k] : k \in 1..Len(s)}

-----------------------------------------------------------------------------
(* C14 *)

\* hist[2] is a pull without force that returned normally, hist[1] the next
\* pull of the same repository without force; the remote tree is the same
PullTwice ==
    /\ Len(hist) >= 2
    /\ IsPull(hist[2]) /\ ~hist[2].force /\ hist[2].status = "ok"
    /\ IsPull(hist[1]) /\ ~hist[1].force /\ hist[1].repo = hist[2].repo

\* C14: after a pull(repo, {force: false}) that returned normally, a second
\* pull(repo, {force: false}) against the unchanged remote tree reports
\* downloaded = 0 and skipped = the number of matching files, and issues no
\* raw-content fetch.
C14_SecondPullSkipsAll ==
    PullTwice =>
        /\ hist[1].status = "ok"
        /\ hist[1].downloaded = 0
        /\ hist[1].skipped = Cardinality(MatchingPaths(hist[1]))
        /\ hist[1].fetched = <<>>
        /\ CacheAfter(hist[1]) = CacheBefore(hist[1])

\* the first pull downloaded files, the second skipped them
C14_Witness ==
    /\ PullTwice
    /\ hist[2].downloaded >= 2
    /\ hist[1].skipped = hist[2].downloaded + hist[2].skipped
    /\ hist[1].skipped = 3

-----------------------------------------------------------------------------
(* C15 *)

\* C15: pull fetches and writes exactly the tree entries that are blobs under
\* skills/, agents/ or output-styles/; every other tree entry is neither
\* fetched nor written nor counted in downloaded or skipped.
C15_OnlySettingsBlobs ==
    (hist # <<>> /\ IsPull(hist[1]) /\ TreeAnswered(hist[1])) =>
        LET c == hist[1] IN
        /\ SeqToSet(c.fetched) \subseteq MatchingPaths(c)
        /\ \A path \in OtherPaths(c) :
              /\ path \notin SeqToSet(c.fetched)
              /\ path \notin FilePaths(CacheAfter(c)) \ FilePaths(CacheBefore(c))
        /\ \A path \in FilePaths(CacheAfter(c)) :
              (path \notin FilePaths(CacheBefore(c))
                   \/ FileText(CacheAfter(c), path) # FileText(CacheBefore(c), path))
              => path \in MatchingPaths(c) /\ path \in SeqToSet(c.files)
        /\ c.status = "ok" =>
              /\ c.downloaded + c.skipped = Cardinality(MatchingPaths(c))
              /\ c.downloaded = Len(c.files)
              /\ c.files = c.fetched
              /\ \A path \in MatchingPaths(c) :
                    IF path \in SeqToSet(c.fetched)
                    THEN /\ path \in FilePaths(CacheAfter(c))
                         /\ FileText(CacheAfter(c), path) = RemoteText(c, path)
                    ELSE ~c.force /\ existsSync(CacheBefore(c), path)

\* skills/x/SKILL.md and agents/x-1.md downloaded, docs/readme.md ignored
C15_Witness ==
    /\ hist # <<>> /\ IsPull(hist[1]) /\ hist[1].status = "ok"
    /\ hist[1].downloaded = 2 /\ hist[1].skipped = 0
    /\ Readme \in OtherPaths(hist[1])
    /\ Tree(Skill(X(0))) \in SeqToSet(TreeOf(hist[1]))
    /\ FilePaths(CacheAfter(hist[1])) = {Skill(X(0)) \o <<SKILL_MD>>, Agent(X(1))}

-----------------------------------------------------------------------------
(* C16 *)

\* C16: with force = false pull never changes the content of a file that
\* already exists in the repository cache: each such file is counted as skipped
\* and keeps its prior content, even when the remote content differs; with
\* force = true no file is skipped and every matching file holds the remote
\* content after a successful pull.
C16_ForceDecidesOverwrite ==
    (hist # <<>> /\ IsPull(hist[1]) /\ TreeAnswered(hist[1])) =>
        LET c == hist[1] IN
        /\ ~c.force =>
              /\ \A path \in FilePaths(CacheBefore(c)) :
                    /\ path \in FilePaths(CacheAfter(c))
                    /\ FileText(CacheAfter(c), path) = FileText(CacheBefore(c), path)
              /\ c.status = "ok" =>
                    c.skipped = Cardinality({path \in MatchingPaths(c) :
                                                existsSync(CacheBefore(c), path)})
        /\ (c.force /\ c.status = "ok") =>
              /\ c.skipped = 0
              /\ \A path \in MatchingPaths(c) :
                    /\ path \in FilePaths(CacheAfter(c))
                    /\ FileText(CacheAfter(c), path) = RemoteText(c, path)

\* a pull without force kept a cached file whose remote text differs; the next
\* pull, forced, replaced it
C16_Witness ==
    /\ Len(hist) >= 2
    /\ IsPull(hist[2]) /\ ~hist[2].force /\ hist[2].status = "ok"
    /\ hist[2].skipped >= 1 /\ hist[2].downloaded >= 1
    /\ IsPull(hist[1]) /\ hist[1].force /\ hist[1].status = "ok"
    /\ hist[1].repo = hist[2].repo
    /\ \E path \in MatchingPaths(hist[1]) \cap FilePaths(CacheBefore(hist[2])) :
          /\ FileText(CacheBefore(hist[1]), path) = FileText(CacheBefore(hist[2]), path)
          /\ FileText(CacheBefore(hist[1]), path) # RemoteText(hist[1], path)
          /\ FileText(CacheAfter(hist[1]), path) = RemoteText(hist[1], path)

-----------------------------------------------------------------------------
(* C17 *)

\* a raw fetch the call issued failed
FetchFailedIn(c) ==
    /\ IsPull(c) /\ TreeAnswered(c)
    /\ \E path \in SeqToSet(c.fetched) : RawFails(remote.repos[c.repo], path)

\* C17: when the raw-content fetch of one file fails during pull, that file is
\* recorded as failed/skipped in the result set and the remaining files of the
\* tree listing are still fetched and written; the pull does not stop at the
\* failed file.
C17_FailedFetchDoesNotAbort ==
    (hist # <<>> /\ FetchFailedIn(hist[1])) =>
        LET c == hist[1] IN
        /\ c.status = "ok"
        /\ \A path \in MatchingPaths(c) :
              (~RawFails(remote.repos[c.repo], path)
                   /\ (c.force \/ ~existsSync(CacheBefore(c), path)))
              => /\ path \in SeqToSet(c.fetched)
                 /\ path \in FilePaths(CacheAfter(c))
                 /\ FileText(CacheAfter(c), path) = RemoteText(c, path)

-----------------------------------------------------------------------------
(* C18 *)

\* C18: after a pull that returns normally the manifest holds an entry for
\* owner/repo with last_pulled set and an item count equal to the number of
\* items the repository's cache holds; after a pull that raises, the manifest
\* entry of that repository is exactly what it was before the call.
C18_ManifestEntryMatchesCache ==
    (hist # <<>> /\ IsPull(hist[1])) =>
        LET c == hist[1] IN
        IF c.status = "ok"
        THEN /\ c.repo \in DOMAIN manifest.repos
             /\ manifest.repos[c.repo].last_pulled = clock
             /\ manifest.repos[c.repo].items_count
                    = Cardinality(scanItems(CacheAfter(c)))
        ELSE ManifestEntry(manifest, c.repo) = ManifestEntry(c.manifestBefore, c.repo)

-----------------------------------------------------------------------------
(* C19 *)

\* the repository of the call holds a descriptor file that can be fetched
HasDescriptor(c) ==
    /\ TreeAnswered(c)
    /\ Blob(CLSYNC_JSON) \in SeqToSet(TreeOf(c))
    /\ ~RawFails(remote.repos[c.repo], CLSYNC_JSON)

\* C19: when the remote repository contains a descriptor file (clsync.json),
\* browse(repo) returns the descriptor's items list verbatim in place of a list
\* inferred from the tree, issues no raw-content fetch per item file, and
\* writes nothing to the local cache or manifest.
C19_BrowsePrefersDescriptor ==
    (hist # <<>> /\ hist[1].op = "browse" /\ HasDescriptor(hist[1])) =>
        LET c == hist[1] IN
        /\ c.status = "ok"
        /\ c.items = RemoteText(c, CLSYNC_JSON).items
        /\ \A k \in 1..Len(c.fetched) : c.fetched[k] = CLSYNC_JSON
        /\ repos = c.before.repos
        /\ manifest = c.manifestBefore

-----------------------------------------------------------------------------
(* C20 *)

\* hist[1] is a push without repoReference that found git, items to push, and
\* could copy them
PushWithoutRepo ==
    /\ hist # <<>> /\ hist[1].op = "push"
    /\ hist[1].repo = NoRepo
    /\ hist[1].status \notin {"ToolMissing", "NoSettings", "IOError"}

\* the repository linked in the staging area's clsync.json before the call
LinkedBefore(c) ==
    IF c.descriptorBefore.exists THEN c.descriptorBefore.fields.linked ELSE "none"

\* C20: push with no repoReference, when no repository is linked, does not
\* fail: it returns {prepared, tempDir, instructions} with the items
\* materialized and committed in the temporary directory and performs no remote
\* push; when no repoReference is supplied but a repository is linked, push
\* goes to the linked repository.
C20_PushWithoutRepo ==
    PushWithoutRepo =>
        LET c == hist[1] IN
        IF LinkedBefore(c) = "none"
        THEN /\ c.status = "prepared"
             /\ c.tempDir \in DOMAIN tmp
             /\ tmp[c.tempDir].committed
             /\ scanItems(tmp[c.tempDir].root) # {}
             /\ remote = c.remoteBefore
        ELSE /\ c.status \in {"pushed", "PushFailed"}
             /\ c.target = LinkedBefore(c)
             /\ c.status = "pushed" =>
                   /\ Len(remote.pushes) = Len(c.remoteBefore.pushes) + 1
                   /\ remote.pushes[Len(remote.pushes)].repo = LinkedBefore(c)

\* the same, for pushes of the staging area only
PushLocalWithoutRepo_Holds == (PushWithoutRepo /\ hist[1].scope = "local") => C20_PushWithoutRepo

-----------------------------------------------------------------------------
(* C21 *)

\* invocations p and q each pulled a repository, a different one, and both
\* returned; p saved the manifest first
BothPulled(p, q) ==
    /\ At(p, "returned") /\ At(q, "returned")
    /\ running[p].repo # running[q].repo
    /\ running[p].saveNo < running[q].saveNo

\* q loaded the manifest before p saved it
Interleaved(p, q) == running[q].sawSaves < running[p].saveNo

C21_WitnessSequential ==
    \E p, q \in Invocations :
        /\ BothPulled(p, q) /\ ~Interleaved(p, q)
        /\ {running[p].repo, running[q].repo} \subseteq DOMAIN manifest.repos

-----------------------------------------------------------------------------
(* C22 *)

\* the invocation is a push that has a temporary directory
HasTempDir(p) ==
    p \in DOMAIN running /\ running[p].op = "push" /\ running[p].tempDir # 0

\* what a push materializes when it is alone in its directory
OwnCopy(p) ==
    PushCopyLoop(running[p].list, 1, running[p].sourceDir, EmptyRoot).root

\* C22: any two push invocations, including concurrent ones that start at the
\* same instant, materialize into different temporary directories, so no push
\* ever copies into, commits or deletes the temporary directory of another
\* push.
C22_PushTempDirsPrivate ==
    /\ \A p, q \in Invocations :
           (p # q /\ HasTempDir(p) /\ HasTempDir(q))
           => running[p].tempDir # running[q].tempDir
    /\ \A p \in Invocations :
           (HasTempDir(p) /\ running[p].status = "prepared")
           => /\ running[p].tempDir \in DOMAIN tmp
              /\ tmp[running[p].tempDir].root = OwnCopy(p)
    /\ \A k \in 1..Len(remote.pushes) :
           \E p \in Invocations :
               /\ HasTempDir(p) /\ running[p].status = "pushed"
               /\ remote.pushes[k].root = OwnCopy(p)

-----------------------------------------------------------------------------
(* C23 *)

\* hist[1] is a stage or unstage that returned normally
StagingDone ==
    /\ hist # <<>>
    /\ hist[1].op \in {"stage", "unstage"}
    /\ hist[1].status = "ok"

ItemCount(root, t) == Cardinality({i \in scanItems(root) : i.type = t})

\* the descriptor lists exactly the items of the scan
ListsTheScan(d, root) ==
    {d.items[p] : p \in DOMAIN d.items}
        = {[type |-> i.type, name |-> i.name, path |-> i.path,
            description |-> i.description] : i \in scanItems(root)}

\* C23: after every completed stage or unstage, the staging area's descriptor
\* file lists exactly the items scan(staging root) returns (type, name, path,
\* description), its stats per type equal the counts of those items with
\* stats.total = skills + agents + output_styles = number of items, and its
\* non-derived fields (name, description, author, created_at, linked
\* repository) equal what the previous descriptor held.
C23_DescriptorMatchesScan ==
    StagingDone =>
        /\ descriptor.exists
        /\ ListsTheScan(descriptor, local)
        /\ descriptor.stats.skills = ItemCount(local, "skill")
        /\ descriptor.stats.agents = ItemCount(local, "agent")
        /\ descriptor.stats.output_styles = ItemCount(local, "output-style")
        /\ descriptor.stats.total = Cardinality(scanItems(local))
        /\ descriptor.stats.total = descriptor.stats.skills + descriptor.stats.agents
                                        + descriptor.stats.output_styles
        /\ descriptor.fields = hist[1].descriptorBefore.fields

-----------------------------------------------------------------------------
(* C24 *)

\* the type directory of an item type
TypeDir(t) ==
    IF t = "skill" THEN "skills" ELSE IF t = "agent" THEN "agents" ELSE "output-styles"

\* a file name minus its .md extension
WithoutMdExtension(entry) == SubSeq(entry, 1, Len(entry) - 1)

\* the item is typed, named and located as the entry it was read from
WellFormed(i) ==
    /\ i.type \in {"skill", "agent", "output-style"}
    /\ i.name = IF i.type = "skill" THEN i.at[2] ELSE WithoutMdExtension(i.at[2])
    /\ i.path = IF i.type = "skill" THEN <<TypeDir(i.type), i.name>>
                ELSE <<TypeDir(i.type), i.name \o <<MD>>>>
    /\ i.path = i.at

\* C24: every item scan returns has type in {skill, agent, output-style}, a
\* name equal to its directory name (skill) or its file name minus the .md
\* extension (agent, output-style), and a path of the form <type-dir>/<name> or
\* <type-dir>/<name>.md where <type-dir> is the directory of its own type; this
\* holds whatever keys the item's leading metadata block contains (including
\* keys called name, type or path) and whatever entries each type directory
\* holds.
C24_ScanItemsWellFormed ==
    \A root \in {user, project, local} : \A i \in scanItems(root) : WellFormed(i)

-----------------------------------------------------------------------------
(* C25 *)

IsScan(c) == c.op = "listRepoItems"

\* the items the call returned for one type directory
ReturnedFor(c, dir) == {c.items[k] : k \in {h \in 1..Len(c.items) : c.items[h].at[1] = dir}}

\* the type directory can be listed and each of its entries can be read
DirReadable(root, dir) ==
    /\ ~ReaddirThrows(root, dir)
    /\ \A p \in EntriesOf(root, dir) : ~EntryThrows(root, p)

\* C25: scan never raises: a missing or unreadable type directory contributes
\* zero items while the other type directories are still enumerated, a skill
\* directory without its descriptor file is skipped, and a file without a
\* metadata block yields an item with empty metadata.
C25_ScanNeverRaises ==
    (hist # <<>> /\ IsScan(hist[1])) =>
        LET c == hist[1] IN
        /\ c.status = "returned"
        /\ \A k \in 1..Len(SETTINGS_DIRS) :
              LET dir == SETTINGS_DIRS[k] IN
              /\ ReaddirThrows(c.root, dir) => ReturnedFor(c, dir) = {}
              /\ DirReadable(c.root, dir) =>
                    ReturnedFor(c, dir) = {i \in scanItems(c.root) : i.at[1] = dir}
        /\ \A p \in EntriesOf(c.root, "skills") :
              (c.root[p].kind = "dir" /\ c.root[p].content.body = 0)
              => \A i \in SeqToSet(c.items) : i.at # p
        /\ \A p \in DOMAIN c.root :
              (/\ DirReadable(c.root, p[1])
               /\ c.root[p].kind = "file" /\ EndsWithMd(p[2])
               /\ parseMetadata(c.root[p].content) = NoMeta)
              => \E i \in SeqToSet(c.items) :
                    /\ i.at = p /\ i.path = p
                    /\ i.description = NoDesc
                    /\ i.name = ReplaceFirstMd(p[2])

\* agents/ is missing and output-styles/ is still enumerated; the skill
\* directory without SKILL.md is passed over and the skill next to it, whose
\* SKILL.md has no metadata block, is returned with empty metadata
C25_Witness ==
    /\ hist # <<>> /\ IsScan(hist[1])
    /\ hist[1].status = "returned"
    /\ ReaddirThrows(hist[1].root, "agents")
    /\ Has(hist[1].root, Skill(X(0))) /\ hist[1].root[Skill(X(0))] = Dir(NoFile, 1)
    /\ Has(hist[1].root, Skill(X(1))) /\ hist[1].root[Skill(X(1))] = Dir(cB, 0)
    /\ Len(hist[1].items) = 2
    /\ hist[1].items[1].at = Skill(X(1)) /\ hist[1].items[1].description = NoDesc
    /\ hist[1].items[2].at = Style(X(0))

-----------------------------------------------------------------------------
(* C26 *)

\* the call loads the manifest, and what manifest.json is when it does
LoadsManifest(c) == c.op \in {"loadManifest", "listPulledRepos"}
FileAtLoad(c) ==
    IF c.op = "listPulledRepos" THEN InitManifest(c.manifestBefore)
    ELSE c.manifestBefore

\* C26: loading the manifest never raises: when manifest.json is missing or is
\* not valid JSON the load yields a fresh manifest with an empty repository
\* map, and initialization never overwrites a manifest file that already
\* exists.
C26_ManifestLoadNeverRaises ==
    hist # <<>> =>
        LET c == hist[1] IN
        /\ LoadsManifest(c) =>
              /\ c.status = "ok"
              /\ (ReadFileThrows(FileAtLoad(c)) \/ JsonParseThrows(FileAtLoad(c)))
                 => c.loaded.repos = EmptyMap
              /\ (~ReadFileThrows(FileAtLoad(c)) /\ "repos" \in DOMAIN FileAtLoad(c))
                 => c.loaded.repos = FileAtLoad(c).repos
        /\ (c.op \in {"initClsync", "listPulledRepos", "loadManifest"}
               /\ c.manifestBefore.exists)
           => manifest = c.manifestBefore
        /\ (c.op \in {"initClsync", "listPulledRepos"} /\ ~c.manifestBefore.exists)
           => manifest = FreshManifest

\* a load of a manifest.json that is not JSON, which an initialisation before
\* it had left as it was
C26_Witness ==
    /\ Len(hist) = 2
    /\ hist[2].op = "initClsync" /\ hist[2].manifestBefore = CorruptManifest
    /\ hist[1].op = "loadManifest" /\ hist[1].manifestBefore = CorruptManifest
    /\ hist[1].status = "ok" /\ hist[1].loaded = FreshManifest
    /\ manifest = CorruptManifest

-----------------------------------------------------------------------------
(* C27 *)

\* invocation p is a move that found its item and passed the conflict check
MoveUnderWay(p) ==
    /\ p \in DOMAIN running
    /\ running[p].op \in {"promote", "demote"}
    /\ running[p].status \notin {"NotFound", "Conflict"}

SrcNow(st) == IF st.op = "promote" THEN project ELSE user
DstNow(st) == IF st.op = "promote" THEN user ELSE project
TargetOf(st) == TargetPath(st.item, st.targetName)

\* the entry the move reads is still in the source, with what it held
InSource(st) ==
    Has(SrcNow(st), st.item.path) /\ SrcNow(st)[st.item.path] = st.srcBefore[st.item.path]

\* the destination is as the copy left it
CopyInPlace(st) ==
    /\ Has(DstNow(st), TargetOf(st))
    /\ DstNow(st) = CopyByType(st.item, st.srcBefore, st.item.path, st.dstBefore,
                               TargetOf(st)).root

\* the delete step failed: the copy had succeeded and the call raised
DeleteFailed(st) ==
    /\ st.pc = "raised"
    /\ CopyByType(st.item, st.srcBefore, st.item.path, st.dstBefore, TargetOf(st)).ok

-----------------------------------------------------------------------------
(* C28 *)

\* the last call is a promote or demote that returned normally
MoveReturned == hist # <<>> /\ IsMove(hist[1]) /\ hist[1].status = "ok"

\* the entry the call wrote is in the destination under the file name of newName
StoredAtNewName(c) == Has(DstAfter(c), TargetPath(c.item, c.newName))

\* C28: in the result of every successful promote/demote, originalName is the
\* requested name, newName is the name under which the item is stored in the
\* destination after the call, and renamed is true exactly when newName differs
\* from originalName; a supplied rename is applied also when there is no
\* conflict at the destination.
C28_ResultNamesTheStoredItem ==
    MoveReturned =>
        LET c == hist[1] IN
        /\ c.item \in FindByName(SrcBefore(c), c.name)
        /\ StoredAtNewName(c)
        /\ HoldsItem(DstAfter(c), c.item.type, c.newName)
        /\ c.renamed <=> (c.newName # c.name)
        /\ c.rename # NoName => c.newName = c.rename
        /\ c.rename = NoName => c.newName = c.name

-----------------------------------------------------------------------------
(* C29 *)

\* root b is root a except perhaps at the entry of path q
SameExceptAt(a, b, q) ==
    \A r \in (DOMAIN a \cup DOMAIN b) \ {q} : Has(a, r) /\ Has(b, r) /\ a[r] = b[r]

\* every item of root a but `moved` is an item of root b, stored where it was
\* with the content it had
OtherItemsKept(a, b, moved) ==
    \A i \in scanItems(a) \ {moved} : Has(b, i.at) /\ b[i.at] = a[i.at]

\* C29: a promote/demote of item (t, n), successful or failing, changes at most
\* two items: (t, n) in the source root and the item of type t at the target
\* name in the destination root; every other item of both roots, including
\* items of another type that share the name n, keeps its presence and content.
C29_MoveChangesTwoItemsAtMost ==
    (hist # <<>> /\ IsMove(hist[1])) =>
        LET c == hist[1] IN
        IF c.status = "NotFound"
        THEN SrcAfter(c) = SrcBefore(c) /\ DstAfter(c) = DstBefore(c)
        ELSE /\ OtherItemsKept(SrcBefore(c), SrcAfter(c), c.item)
             /\ SameExceptAt(SrcBefore(c), SrcAfter(c), c.item.at)
             /\ SameExceptAt(DstBefore(c), DstAfter(c),
                             TargetPath(c.item, TargetName(c.name, c.rename)))

-----------------------------------------------------------------------------
(* C30 *)

\* the last call is a pull
Pulled == hist # <<>> /\ hist[1].op = "pull"

\* the entries of a manifest file as loadManifest reads them
EntriesRead(m) == loadManifest(m).manifest.repos

\* the user root, the project root and the items of the staging area are as
\* they were before the pull
RootsUntouched(c) ==
    /\ user = c.before.user
    /\ project = c.before.project
    /\ local = c.before.local

\* a directory the pull made or changed is the cache directory of the pulled
\* repository, below the repository pool
WritesBelowOwnCache(c) ==
    \A k \in DOMAIN repos :
        (k \notin DOMAIN c.before.repos \/ repos[k] # CacheOf(c.before.repos, k))
        => (k = c.repo /\ c.dir = "cache")

\* every cache but the pulled repository's is as it was
OtherCachesUntouched(c) ==
    \A k \in DOMAIN c.before.repos \ {c.repo} :
        k \in DOMAIN repos /\ repos[k] = c.before.repos[k]

\* every manifest entry but the pulled repository's is as it was
OtherEntriesUntouched(c) ==
    \A k \in (DOMAIN EntriesRead(manifest) \cup DOMAIN EntriesRead(c.manifestBefore)) \ {c.repo} :
        /\ k \in DOMAIN EntriesRead(manifest)
        /\ k \in DOMAIN EntriesRead(c.manifestBefore)
        /\ EntriesRead(manifest)[k] = EntriesRead(c.manifestBefore)[k]

\* C30: a pull of repository owner/repo writes only below that repository's own
\* cache directory and the manifest: it never creates, changes or deletes a
\* file of the staging area, of another repository's cache, or of the user or
\* project root, and it leaves the manifest entries of all other repositories
\* as they were, for every repository reference the parser accepts.  The
\* descriptor of the staging area, which every command creates on first use, is
\* left out of the statement.
C30_PullWritesOwnCacheOnly ==
    Pulled =>
        /\ RootsUntouched(hist[1])
        /\ WritesBelowOwnCache(hist[1])
        /\ OtherCachesUntouched(hist[1])
        /\ OtherEntriesUntouched(hist[1])

====
